---- MODULE Spec2Model ----
(***************************************************************************)
(* Penalty policy engine of tasksbot: events, policies, the ledger, caps,  *)
(* grace, cooldown, dedupe, the appeal workflow, forgiveness and the       *)
(* weekly decay, as a state machine.                                       *)
(*                                                                         *)
(* Time is a counter of ticks ("minutes"); DayLen ticks make a UTC day and *)
(* DaysPerMonth days a calendar month.  A handler runs at one instant: the *)
(* clock moves only between handlers (Tick).  Optional values (Python      *)
(* None) are sequences of length 0 or 1.  The ledger rows carry two        *)
(* bookkeeping fields that are not columns, rule and engine: the rule of   *)
(* the policy that produced the row and the PolicyEngine that wrote it.    *)
(***************************************************************************)
EXTENDS Integers, Sequences, FiniteSets, TLC

\* ---------------------------------------------------------------- bounds
MaxEvents == 2
MaxLedger == 3
MaxTime == 2
DayLen == 2
DaysPerMonth == 2
MaxAppeals == 2
SeqMaxEvents == 4
MaxMagnitude == 5

VARIABLES policies, autoflush, now, events, ledger, appeals, cooldowns, evals, run,
          last_call, escalations, session

vars == <<policies, autoflush, now, events, ledger, appeals, cooldowns, evals, run,
          last_call, escalations, session>>

\* ------------------------------------------------------------- optionals
None == <<>>
Some(v) == <<v>>
Min(a, b) == IF a <= b THEN a ELSE b
Max(a, b) == IF a >= b THEN a ELSE b

\* ------------------------------------------------------------ the domain
Users == {1, 2}
Engines == {1, 2}
Sources == {"late", "missed_checkin"}
Moderators == {9}

\* datetime.utcnow() truncated to the day / to the first day of the month
DayStart(t) == (t \div DayLen) * DayLen
MonthStart(t) == (t \div (DayLen * DaysPerMonth)) * (DayLen * DaysPerMonth)
Day(t) == t \div DayLen

\* ------------------------------------------------------ policies (inputs)
Rule(when, thresholds, points, amount, grace, cooldown_min, cap_points, cap_amount) ==
    [when |-> when, thresholds |-> thresholds, points |-> points, amount |-> amount,
     grace |-> [count_per_day |-> grace], cooldown_min |-> cooldown_min,
     per_occurrence_cap |-> [points |-> cap_points, amount |-> cap_amount]]

Policy(id, is_active, direction_ids, point_ids, rules, daily_points, month_amount) ==
    [id |-> id, is_active |-> is_active,
     scope |-> [direction_ids |-> direction_ids, point_ids |-> point_ids],
     rules |-> rules,
     caps |-> [daily |-> [points |-> daily_points], month |-> [amount |-> month_amount]]]

\* thresholds = {'gt_minutes': 5}
GtMinutes5 == <<[prefix |-> "gt", metric |-> "minutes", val |-> 5]>>

\* A rule is a JSON object: a key may be absent, or present and null.  The rules built
\* by Rule have every key; Malformed names the keys of a rule to read as absent or null.
Malformed(rule, absent, null) == [absent |-> absent, null |-> null] @@ rule
KeyAbsent(rule, key) == "absent" \in DOMAIN rule /\ key \in rule.absent
KeyNull(rule, key) == "null" \in DOMAIN rule /\ key \in rule.null

\* tests/test_policy_engine.py seed_policy(session, with_grace)
seed_policy(with_grace) ==
    Policy(1, TRUE, {}, {},
           <<Rule("late", GtMinutes5, 5, None,
                  IF with_grace THEN Some(1) ELSE None, None, Some(10), None)>>,
           Some(10), None)

\* seed_policy without grace and a daily cap that is no multiple of the points
clamp_policy ==
    Policy(1, TRUE, {}, {},
           <<Rule("late", GtMinutes5, 5, None, None, None, Some(10), None)>>,
           Some(8), None)

\* the same with grace.count_per_day = 2
grace2_policy ==
    Policy(1, TRUE, {}, {},
           <<Rule("late", GtMinutes5, 5, None, Some(2), None, Some(10), None)>>,
           Some(8), None)

\* one rule with cooldown_min = 2, no cap
cooldown_policy ==
    Policy(1, TRUE, {}, {},
           <<Rule("late", GtMinutes5, 5, None, None, Some(2), None, None)>>,
           None, None)

\* two rules of one policy that match the same event, daily cap 5
two_rule_policy ==
    Policy(1, TRUE, {}, {},
           <<Rule("late", GtMinutes5, 5, None, None, None, None, None),
             Rule("late", <<>>, 3, None, None, None, None, None)>>,
           Some(5), None)

\* one rule that charges points and money, no caps
decay_policy ==
    Policy(1, TRUE, {}, {},
           <<Rule("late", GtMinutes5, 3, Some(4), None, None, None, None)>>,
           None, None)

\* two rules that charge money for 'late' under one monthly cap
two_amount_policy ==
    Policy(1, TRUE, {}, {},
           <<Rule("late", GtMinutes5, 1, Some(4), None, None, None, None),
             Rule("late", <<>>, 1, Some(3), None, None, None, None)>>,
           None, Some(5))

\* two policies that both match 'late', each with its own daily and monthly cap
cap_policy_a ==
    Policy(1, TRUE, {}, {},
           <<Rule("late", GtMinutes5, 5, Some(4), None, None, None, None)>>,
           Some(5), Some(4))
cap_policy_b ==
    Policy(2, TRUE, {}, {},
           <<Rule("late", GtMinutes5, 5, Some(4), None, None, None, None)>>,
           Some(8), Some(6))
\* two policies that both match 'late', each rule with a cooldown, no caps
cooldown_policy_a ==
    Policy(1, TRUE, {}, {},
           <<Rule("late", GtMinutes5, 5, None, None, Some(2), None, None)>>,
           None, None)
cooldown_policy_b ==
    Policy(2, TRUE, {}, {},
           <<Rule("late", GtMinutes5, 3, None, None, Some(2), None, None)>>,
           None, None)

\* a rule that is not well formed, followed by a rule that is: no "when"; no "points"
\* (with an amount); "thresholds": null; "per_occurrence_cap": null
well_formed_rule == Rule("late", <<>>, 3, None, None, None, None, None)
missing_when_policy ==
    Policy(1, TRUE, {}, {},
           <<Malformed(Rule("late", GtMinutes5, 5, None, None, None, None, None), {"when"}, {}),
             well_formed_rule>>,
           None, None)
missing_points_policy ==
    Policy(1, TRUE, {}, {},
           <<Malformed(Rule("late", GtMinutes5, 5, Some(4), None, None, None, None), {"points"}, {}),
             well_formed_rule>>,
           None, None)
null_thresholds_policy ==
    Policy(1, TRUE, {}, {},
           <<Malformed(Rule("late", <<>>, 5, None, None, None, None, None), {}, {"thresholds"}),
             well_formed_rule>>,
           None, None)
null_cap_policy ==
    Policy(1, TRUE, {}, {},
           <<Malformed(Rule("late", GtMinutes5, 5, None, None, None, None, None), {},
                       {"per_occurrence_cap"}),
             well_formed_rule>>,
           None, None)

\* one 'late' rule with grace.count_per_day = g and nothing else that suppresses
grace_policy(g) ==
    Policy(1, TRUE, {}, {},
           <<Rule("late", GtMinutes5, 5, None, Some(g), None, None, None)>>,
           None, None)

\* a rule that charges points and money; the daily cap is spent by one row, the
\* monthly cap by none of the runs
exhaust_policy ==
    Policy(1, TRUE, {}, {},
           <<Rule("late", GtMinutes5, 5, Some(1), None, None, None, None)>>,
           Some(5), Some(12))
\* one 'late' rule with the given thresholds and nothing else that suppresses
LtMinutes5 == <<[prefix |-> "lt", metric |-> "minutes", val |-> 5]>>
GtMinutes5LtMinutes10 == GtMinutes5 \o <<[prefix |-> "lt", metric |-> "minutes", val |-> 10]>>
threshold_policy(thresholds) ==
    Policy(1, TRUE, {}, {},
           <<Rule("late", thresholds, 1, None, None, None, None, None)>>,
           None, None)
ThresholdConfigs ==
    { <<threshold_policy(GtMinutes5)>>, <<threshold_policy(LtMinutes5)>>,
      <<threshold_policy(GtMinutes5LtMinutes10)>> }

\* policies that differ in is_active and scope, each with one rule that always fires
scoped_policy(id, is_active, direction_ids, point_ids) ==
    Policy(id, is_active, direction_ids, point_ids,
           <<Rule("late", <<>>, 1, None, None, None, None, None)>>,
           None, None)
ScopeConfigs ==
    { <<scoped_policy(1, TRUE, {1}, {}), scoped_policy(2, FALSE, {}, {}),
        scoped_policy(3, TRUE, {}, {2})>>,
      <<scoped_policy(1, TRUE, {1}, {2}), scoped_policy(2, TRUE, {}, {})>> }

\* a rule that charges points and money; the monthly cap is spent by one row, the
\* daily cap by three
month_out_policy ==
    Policy(1, TRUE, {}, {},
           <<Rule("late", GtMinutes5, 2, Some(4), None, None, None, None)>>,
           Some(5), Some(4))
\* a rule whose per-occurrence cap is below its points and its amount
per_cap_policy ==
    Policy(1, TRUE, {}, {},
           <<Rule("late", GtMinutes5, 5, Some(4), None, None, Some(3), Some(2))>>,
           Some(5), Some(3))
\* a rule whose per-occurrence cap leaves 0 points and whose amount is 0
zero_policy ==
    Policy(1, TRUE, {}, {},
           <<Rule("late", GtMinutes5, 5, Some(0), None, None, Some(0), None)>>,
           None, None)
EmptyConfigs == { <<zero_policy>>, <<seed_policy(FALSE)>>, <<cap_policy_b>> }
PerCapConfigs == { <<per_cap_policy>>, <<seed_policy(FALSE)>> }
MonthOutConfigs == { <<month_out_policy>>, <<cap_policy_b>> }
ExhaustConfigs == { <<exhaust_policy>>, <<cap_policy_b>> }
WaiveConfigs == { <<cap_policy_b>> }
PolicyConfigs == { <<seed_policy(FALSE)>>, <<two_rule_policy>> }
CooldownConfigs == { <<cooldown_policy>> }
\* the query of policies_for has no ORDER BY: either order of the rows
MultiConfigs ==
    { <<cap_policy_a, cap_policy_b>>,
      <<cooldown_policy_a, cooldown_policy_b>>, <<cooldown_policy_b, cooldown_policy_a>> }
MonthConfigs == { <<two_amount_policy>>, <<cap_policy_b>> }
FailConfigs == { <<two_rule_policy>>, <<cooldown_policy>> }
DecayConfigs == { <<decay_policy>> }
AppealConfigs == { <<seed_policy(FALSE)>> }
ConcConfigs == { <<seed_policy(FALSE)>>, <<clamp_policy>> }
MalformedConfigs ==
    { <<missing_when_policy>>, <<missing_points_policy>>, <<null_thresholds_policy>>,
      <<null_cap_policy>> }
GraceConfigs == { <<grace_policy(1)>>, <<grace_policy(2)>> }
SeqConfigs == { <<seed_policy(TRUE)>>, <<seed_policy(FALSE)>>, <<clamp_policy>>, <<grace2_policy>> }

\* -------------------------------------------------------- events (inputs)
PenaltyEvent(user_id, source, minutes, dedupe_key) ==
    [user_id |-> user_id, direction_id |-> None, point_id |-> None, source |-> source,
     payload |-> [minutes |-> minutes], dedupe_key |-> dedupe_key]

EventInputs ==
    { PenaltyEvent(1, "late", Some(10), None),
      PenaltyEvent(1, "late", Some(10), Some("a")),
      PenaltyEvent(2, "late", Some(10), Some("a")) }
CooldownInputs ==
    { PenaltyEvent(1, "late", Some(10), None),
      PenaltyEvent(2, "late", Some(10), None) }
AppealInputs == { PenaltyEvent(1, "late", Some(10), None) }
DecayInputs ==
    { PenaltyEvent(1, "late", Some(10), None),
      PenaltyEvent(2, "late", Some(10), None) }
MultiInputs ==
    { PenaltyEvent(1, "late", Some(10), None),
      PenaltyEvent(2, "late", Some(10), None) }
MonthInputs ==
    { PenaltyEvent(1, "late", Some(10), None),
      PenaltyEvent(2, "late", Some(10), None) }
FailInputs == { PenaltyEvent(1, "late", Some(10), None) }
ForgiveInputs == { PenaltyEvent(1, "late", Some(10), None) }
ConcInputs ==
    { PenaltyEvent(1, "late", Some(10), None),
      PenaltyEvent(2, "late", Some(10), None) }
\* late and over the threshold, late and under it, another user, another source
GraceInputs ==
    { PenaltyEvent(1, "late", Some(10), None),
      PenaltyEvent(1, "late", Some(3), None),
      PenaltyEvent(2, "late", Some(10), None),
      PenaltyEvent(1, "missed_checkin", None, None) }
\* payloads without the metric, and with it under, at, between and at the values
ThresholdInputs ==
    { PenaltyEvent(1, "late", m, None) : m \in {None, Some(3), Some(5), Some(7), Some(10)} }
\* events with and without a direction and a point
ScopeInputs ==
    { [PenaltyEvent(1, "late", Some(10), None) EXCEPT !.direction_id = d, !.point_id = p] :
          d \in {None, Some(1), Some(2)}, p \in {None, Some(2)} }
\* events with no key, with an empty key and with a key shared across users and sources
DedupeInputs ==
    { PenaltyEvent(1, "late", Some(10), None),
      PenaltyEvent(1, "late", Some(10), Some("a")),
      PenaltyEvent(2, "missed_checkin", Some(10), Some("a")),
      PenaltyEvent(1, "late", Some(10), Some("")),
      PenaltyEvent(2, "late", Some(10), Some("")) }
\* over the threshold, under it, another source, and with a dedupe key
TraceInputs ==
    { PenaltyEvent(1, "late", Some(10), None),
      PenaltyEvent(1, "late", Some(3), None),
      PenaltyEvent(1, "missed_checkin", Some(10), None),
      PenaltyEvent(1, "late", Some(10), Some("a")) }
SeqInputs ==
    { PenaltyEvent(1, "late", Some(10), None),
      PenaltyEvent(1, "late", Some(5), None),
      PenaltyEvent(2, "late", Some(10), None) }

\* ------------------------------------------------------------ aggregation
RECURSIVE SumPoints(_)
SumPoints(rows) ==
    IF rows = <<>> THEN 0 ELSE Head(rows).points + SumPoints(Tail(rows))

\* func.coalesce(func.sum(amount), 0): NULL amounts do not count
RECURSIVE SumAmount(_)
SumAmount(rows) ==
    IF rows = <<>> THEN 0
    ELSE (IF Head(rows).amount = None THEN 0 ELSE Head(rows).amount[1]) + SumAmount(Tail(rows))

\* What a query of the session sees: the committed rows, and the rows this session
\* added and has not committed when the session flushes before a query.
Visible(pending) == ledger \o (IF autoflush THEN pending ELSE <<>>)

\* ------------------------------------------------------------ PolicyEngine
\* The policies variable is the penalty_policies table.  session is the Session the
\* engine was built on, as far as policies go: identity_map[i] is the PenaltyPolicy
\* object of row i that the session holds loaded, or None; keeps says whether the
\* caller keeps references to the objects a query returned, without which the
\* session's weak identity map drops them when the call returns.
\* session.query(PenaltyPolicy)...all() selects rows by the table's is_active and
\* returns, for a row whose object the session holds loaded, that object as it is.
session_policy(i) ==
    IF session.identity_map[i] = None THEN policies[i] ELSE session.identity_map[i][1]

\* a commit or a rollback expires every object of the session
expired == [session EXCEPT !.identity_map = [i \in 1..Len(policies) |-> None]]

\* after the query of policies_for: the active rows are loaded, and stay if kept
queried ==
    IF session.keeps
    THEN [session EXCEPT !.identity_map =
             [i \in 1..Len(policies) |->
                 IF policies[i].is_active THEN Some(session_policy(i)) ELSE @[i]]]
    ELSE session

RECURSIVE select_policies(_, _)
select_policies(i, event) ==
    IF i > Len(policies) THEN <<>>
    ELSE LET p == session_policy(i)
             dirs == p.scope.direction_ids
             pts == p.scope.point_ids
             skip == \/ ~policies[i].is_active
                     \/ dirs # {} /\ (event.direction_id = None \/ event.direction_id[1] \notin dirs)
                     \/ pts # {} /\ (event.point_id = None \/ event.point_id[1] \notin pts)
         IN (IF skip THEN <<>> ELSE <<i>>) \o select_policies(i + 1, event)

\* A faulty variant: every active policy, whatever its scope
policies_for_unscoped(event) ==
    SelectSeq([i \in 1..Len(policies) |-> i], LAMBDA i : policies[i].is_active)

policies_for(event) == select_policies(1, event)

\* A faulty variant: a metric equal to the value passes
entry_fails_unless_equal(th, payload) ==
    LET metric == IF th.metric \in DOMAIN payload THEN payload[th.metric] ELSE None
    IN IF metric = None THEN TRUE
       ELSE IF th.prefix = "gt" /\ ~(metric[1] >= th.val) THEN TRUE
       ELSE IF th.prefix = "lt" /\ ~(metric[1] <= th.val) THEN TRUE
       ELSE FALSE

\* the body of the loop of _threshold_pass: whether the entry th returns False
entry_fails(th, payload) ==
    LET metric == IF th.metric \in DOMAIN payload THEN payload[th.metric] ELSE None
    IN IF metric = None THEN TRUE
       ELSE IF th.prefix = "gt" /\ ~(metric[1] > th.val) THEN TRUE
       ELSE IF th.prefix = "lt" /\ ~(metric[1] < th.val) THEN TRUE
       ELSE FALSE

RECURSIVE threshold_pass(_, _)
threshold_pass(thresholds, payload) ==
    IF thresholds = <<>> THEN TRUE
    ELSE IF entry_fails(Head(thresholds), payload) THEN FALSE
    ELSE threshold_pass(Tail(thresholds), payload)

\* A faulty variant: the allowance compared with < instead of <=
grace_applies_strict(evs, event, rule) ==
    LET count_per_day == rule.grace.count_per_day
        count == Cardinality({i \in 1..Len(evs) :
                                /\ evs[i].user_id = event.user_id
                                /\ evs[i].source = event.source
                                /\ evs[i].occurred_at >= DayStart(now)})
    IN IF count_per_day = None \/ count_per_day = Some(0) THEN FALSE
       ELSE count < count_per_day[1]

\* A faulty variant: the events of every source count
grace_applies_any_source(evs, event, rule) ==
    LET count_per_day == rule.grace.count_per_day
        start == DayStart(now)
        count == Cardinality({i \in 1..Len(evs) :
                                /\ evs[i].user_id = event.user_id
                                /\ evs[i].occurred_at >= start})
    IN IF count_per_day = None \/ count_per_day = Some(0) THEN FALSE
       ELSE count <= count_per_day[1]

grace_applies(evs, event, rule) ==
    LET count_per_day == rule.grace.count_per_day
        start == DayStart(now)
        count == Cardinality({i \in 1..Len(evs) :
                                /\ evs[i].user_id = event.user_id
                                /\ evs[i].source = event.source
                                /\ evs[i].occurred_at >= start})
    IN IF count_per_day = None \/ count_per_day = Some(0) THEN FALSE
       ELSE count <= count_per_day[1]

\* A faulty variant: the window one minute short
cooldown_applies_short(event, rule, cd) ==
    LET c == rule.cooldown_min
        last == cd[<<event.user_id, event.source>>]
    IN IF c = None \/ c = Some(0) THEN FALSE
       ELSE last # None /\ now - last[1] < c[1] - 1

cooldown_applies(event, rule, cd) ==
    LET c == rule.cooldown_min
        last == cd[<<event.user_id, event.source>>]
    IN IF c = None \/ c = Some(0) THEN FALSE
       ELSE last # None /\ now - last[1] < c[1]

\* A faulty variant: only the same user's events count as re-deliveries
dedupe_applies_same_user(evs, eid) ==
    IF evs[eid].dedupe_key = None \/ evs[eid].dedupe_key = Some("") THEN FALSE
    ELSE \E i \in 1..Len(evs) : /\ evs[i].dedupe_key = evs[eid].dedupe_key /\ i # eid
                                /\ evs[i].user_id = evs[eid].user_id

\* "if not event.dedupe_key": None and the empty string are both falsy
dedupe_applies(evs, eid) ==
    IF evs[eid].dedupe_key = None \/ evs[eid].dedupe_key = Some("") THEN FALSE
    ELSE \E i \in 1..Len(evs) : evs[i].dedupe_key = evs[eid].dedupe_key /\ i # eid

\* A faulty variant: an exhausted daily cap rejects, but the candidate is not clamped to the rest
apply_caps_unclamped(user_id, policy, points, amount, view) ==
    LET total_points == SumPoints(SelectSeq(view, LAMBDA r :
                            r.user_id = user_id /\ r.policy_id = policy.id
                            /\ r.applied_at >= DayStart(now)))
        max_daily == policy.caps.daily.points
    IN IF max_daily # None /\ total_points >= max_daily[1]
       THEN [points |-> 0, amount |-> None]
       ELSE [points |-> points, amount |-> amount]

\* A faulty variant: the daily sum taken over every day, not from the start of today
apply_caps_all_days(user_id, policy, points, amount, view) ==
    LET total_points == SumPoints(SelectSeq(view, LAMBDA r :
                            r.user_id = user_id /\ r.policy_id = policy.id))
        max_daily == policy.caps.daily.points
    IN IF max_daily # None /\ total_points >= max_daily[1]
       THEN [points |-> 0, amount |-> None]
       ELSE [points |-> IF max_daily # None THEN Min(points, max_daily[1] - total_points)
                        ELSE points,
             amount |-> amount]

\* A faulty variant: the sums taken over the user's rows of every policy
apply_caps_any_policy(user_id, policy, points, amount, view) ==
    LET total_points == SumPoints(SelectSeq(view, LAMBDA r :
                            r.user_id = user_id /\ r.applied_at >= DayStart(now)))
        max_daily == policy.caps.daily.points
        max_amt == policy.caps.month.amount
        month_amt == SumAmount(SelectSeq(view, LAMBDA r :
                            r.user_id = user_id /\ r.applied_at >= MonthStart(now)))
    IN IF max_daily # None /\ total_points >= max_daily[1]
       THEN [points |-> 0, amount |-> None]
       ELSE [points |-> IF max_daily # None THEN Min(points, max_daily[1] - total_points)
                        ELSE points,
             amount |-> IF amount # None /\ max_amt # None
                        THEN (IF month_amt >= max_amt[1] THEN None
                              ELSE Some(Min(amount[1], max_amt[1] - month_amt)))
                        ELSE amount]

\* A faulty variant: an exhausted monthly cap rejects the candidate like a daily one
apply_caps_month_rejects(user_id, policy, points, amount, view) ==
    LET start == DayStart(now)
        total_points == SumPoints(SelectSeq(view, LAMBDA r :
                            r.user_id = user_id /\ r.policy_id = policy.id /\ r.applied_at >= start))
        max_daily == policy.caps.daily.points
        max_amt == policy.caps.month.amount
        month_amt == SumAmount(SelectSeq(view, LAMBDA r :
                            r.user_id = user_id /\ r.policy_id = policy.id
                            /\ r.applied_at >= MonthStart(now)))
    IN IF max_daily # None /\ total_points >= max_daily[1]
       THEN [points |-> 0, amount |-> None]
       ELSE IF amount # None /\ max_amt # None /\ month_amt >= max_amt[1]
       THEN [points |-> 0, amount |-> None]
       ELSE [points |-> IF max_daily # None THEN Min(points, max_daily[1] - total_points)
                        ELSE points,
             amount |-> IF amount # None /\ max_amt # None
                        THEN Some(Min(amount[1], max_amt[1] - month_amt))
                        ELSE amount]

\* A faulty variant: an exhausted daily cap takes the points and leaves the amount
apply_caps_keep_amount(user_id, policy, points, amount, view) ==
    LET start == DayStart(now)
        total_points == SumPoints(SelectSeq(view, LAMBDA r :
                            r.user_id = user_id /\ r.policy_id = policy.id /\ r.applied_at >= start))
        max_daily == policy.caps.daily.points
        max_amt == policy.caps.month.amount
        month_amt == SumAmount(SelectSeq(view, LAMBDA r :
                            r.user_id = user_id /\ r.policy_id = policy.id
                            /\ r.applied_at >= MonthStart(now)))
    IN [points |-> IF max_daily # None THEN Max(0, Min(points, max_daily[1] - total_points))
                   ELSE points,
        amount |-> IF amount # None /\ max_amt # None
                   THEN (IF month_amt >= max_amt[1] THEN None
                         ELSE Some(Min(amount[1], max_amt[1] - month_amt)))
                   ELSE amount]

\* A faulty variant: waived rows no longer count against the caps
apply_caps_applied_only(user_id, policy, points, amount, view) ==
    LET start == DayStart(now)
        total_points == SumPoints(SelectSeq(view, LAMBDA r :
                            /\ r.user_id = user_id /\ r.policy_id = policy.id
                            /\ r.applied_at >= start /\ r.status = "applied"))
        max_daily == policy.caps.daily.points
        max_amt == policy.caps.month.amount
        month_amt == SumAmount(SelectSeq(view, LAMBDA r :
                            /\ r.user_id = user_id /\ r.policy_id = policy.id
                            /\ r.applied_at >= MonthStart(now) /\ r.status = "applied"))
    IN IF max_daily # None /\ total_points >= max_daily[1]
       THEN [points |-> 0, amount |-> None]
       ELSE [points |-> IF max_daily # None THEN Min(points, max_daily[1] - total_points)
                        ELSE points,
             amount |-> IF amount # None /\ max_amt # None
                        THEN (IF month_amt >= max_amt[1] THEN None
                              ELSE Some(Min(amount[1], max_amt[1] - month_amt)))
                        ELSE amount]

apply_caps(user_id, policy, points, amount, view) ==
    LET start == DayStart(now)
        total_points == SumPoints(SelectSeq(view, LAMBDA r :
                            r.user_id = user_id /\ r.policy_id = policy.id /\ r.applied_at >= start))
        max_daily == policy.caps.daily.points
        max_amt == policy.caps.month.amount
        month_amt == SumAmount(SelectSeq(view, LAMBDA r :
                            r.user_id = user_id /\ r.policy_id = policy.id
                            /\ r.applied_at >= MonthStart(now)))
    IN IF max_daily # None /\ total_points >= max_daily[1]
       THEN [points |-> 0, amount |-> None]
       ELSE [points |-> IF max_daily # None THEN Min(points, max_daily[1] - total_points)
                        ELSE points,
             amount |-> IF amount # None /\ max_amt # None
                        THEN (IF month_amt >= max_amt[1] THEN None
                              ELSE Some(Min(amount[1], max_amt[1] - month_amt)))
                        ELSE amount]

\* A faulty variant: the per-occurrence cap is not applied
per_occurrence_uncapped(rule) ==
    [points |-> IF KeyAbsent(rule, "points") THEN 0 ELSE rule.points, amount |-> rule.amount]

\* points and amount of the rule after "per_cap = rule.get('per_occurrence_cap', {})":
\* each is lowered to the cap field that is set
per_occurrence(rule) ==
    LET per_cap == rule.per_occurrence_cap
        rule_points == IF KeyAbsent(rule, "points") THEN 0 ELSE rule.points
    IN [points |-> IF per_cap.points # None THEN Min(rule_points, per_cap.points[1])
                   ELSE rule_points,
        amount |-> IF per_cap.amount # None /\ rule.amount # None
                   THEN Some(Min(rule.amount[1], per_cap.amount[1])) ELSE rule.amount]

\* A faulty variant: only a candidate without points and without any amount is dropped
nothing_left_strict(capped) == capped.points = 0 /\ capped.amount = None

\* "if points == 0 and not amount": None and 0 are both falsy
nothing_left(capped) ==
    capped.points = 0 /\ (capped.amount = None \/ capped.amount = Some(0))

\* A faulty variant: the cooldown is stamped as soon as the rule's checks pass, before
\* the caps are found to leave nothing
eval_rule_stamping(evs, g, eid, pi, ri, st) ==
    LET event == evs[eid]
        policy == session_policy(pi)
        rule == policy.rules[ri]
        candidate == per_occurrence(rule)
        capped == apply_caps(event.user_id, policy, candidate.points, candidate.amount,
                             Visible(st.ledgers))
        passes == /\ ~KeyAbsent(rule, "when") /\ rule.when = event.source
                  /\ threshold_pass(rule.thresholds, event.payload)
                  /\ ~grace_applies(evs, event, rule)
                  /\ ~cooldown_applies(event, rule, st.cooldowns)
                  /\ ~dedupe_applies(evs, eid)
        row == [event_id |-> eid, user_id |-> event.user_id, policy_id |-> policy.id,
                applied_at |-> now, points |-> capped.points, amount |-> capped.amount,
                reasons |-> <<event.source>>, status |-> "applied",
                rule |-> ri, engine |-> g]
        stamp == [st.cooldowns EXCEPT ![<<event.user_id, event.source>>] = Some(now)]
    IN IF ~passes THEN st
       ELSE IF nothing_left(capped) THEN [st EXCEPT !.cooldowns = stamp]
       ELSE [st EXCEPT !.ledgers = Append(st.ledgers, row), !.cooldowns = stamp]

\* One pass of the body of "for rule in policy.rules" for rule ri of policy pi:
\* st holds the rows the call has added so far, the engine's cooldown map and whether
\* an exception has ended the call; evs is the penalty_events table.
\* rule.get("thresholds", {}) and rule.get("per_occurrence_cap", {}) give None for a
\* null key, and None.items() or None.get(...) raises AttributeError.
eval_rule(evs, g, eid, pi, ri, st) ==
    LET event == evs[eid]
        policy == session_policy(pi)
        rule == policy.rules[ri]
        candidate == per_occurrence(rule)
        capped == apply_caps(event.user_id, policy, candidate.points, candidate.amount,
                             Visible(st.ledgers))
        when_matches == ~KeyAbsent(rule, "when") /\ rule.when = event.source
        passes == /\ when_matches
                  /\ ~KeyNull(rule, "thresholds")
                  /\ threshold_pass(rule.thresholds, event.payload)
                  /\ ~grace_applies(evs, event, rule)
                  /\ ~cooldown_applies(event, rule, st.cooldowns)
                  /\ ~dedupe_applies(evs, eid)
        raises == \/ when_matches /\ KeyNull(rule, "thresholds")
                  \/ passes /\ KeyNull(rule, "per_occurrence_cap")
        fires == passes /\ ~nothing_left(capped)
        row == [event_id |-> eid, user_id |-> event.user_id, policy_id |-> policy.id,
                applied_at |-> now, points |-> capped.points, amount |-> capped.amount,
                reasons |-> <<event.source>>, status |-> "applied",
                rule |-> ri, engine |-> g]
    IN IF st.raised THEN st
       ELSE IF raises THEN [st EXCEPT !.raised = TRUE]
       ELSE IF fires
       THEN [st EXCEPT !.ledgers = Append(st.ledgers, row),
                       !.cooldowns = [st.cooldowns EXCEPT ![<<event.user_id, event.source>>] = Some(now)]]
       ELSE st

\* the (policy, rule) pairs in the order the two loops of apply_event visit them
RECURSIVE rule_pairs(_, _)
rule_pairs(pis, ri) ==
    IF pis = <<>> THEN <<>>
    ELSE IF ri > Len(session_policy(Head(pis)).rules) THEN rule_pairs(Tail(pis), 1)
    ELSE <<<<Head(pis), ri>>>> \o rule_pairs(pis, ri + 1)

RECURSIVE eval_rules(_, _, _, _, _)
eval_rules(evs, g, eid, work, st) ==
    IF work = <<>> THEN st
    ELSE eval_rules(evs, g, eid, Tail(work),
                    eval_rule(evs, g, eid, work[1][1], work[1][2], st))

\* apply_event's two loops for event eid, from the engine's cooldown map
eval_rules_on(evs, g, eid) ==
    eval_rules(evs, g, eid, rule_pairs(policies_for(evs[eid]), 1),
               [ledgers |-> <<>>, cooldowns |-> cooldowns[g], raised |-> FALSE])

Idle == [event |-> 0, work |-> <<>>, ledgers |-> <<>>]


\* Bookkeeping, not program state.  last_call is None after a call that returned, and
\* after a call that raised it is Raised(op, exception): what the caller saw.
Raised(op, exception) == <<op, exception>>
\* after an apply_event whose commit raised it is CommitFailed(g, eid, rows), rows being
\* what the call had added to its session
CommitFailed(g, eid, rows) == <<"apply_event", "OperationalError", g, eid, rows>>
\* after a decay run it is Decayed(user_id, points): the run a retry would repeat
Decayed(user_id, points) == <<"decay_weekly", user_id, points>>
\* what the caller of apply_event sees, and the table after the call: an exception
\* leaves before the commit, and the caller rolls the session back
returned(st) == IF st.raised THEN Raised("apply_event", "AttributeError") ELSE None
written(rows, st) == IF st.raised THEN rows ELSE rows \o st.ledgers
\* the session after the call: "if ledgers: self.session.commit()" expires its objects,
\* and so does the caller's rollback; a call that adds no row does neither.  Where
\* nothing is kept the session holds no policy object before or after.
left(st) ==
    IF ~session.keeps THEN session
    ELSE IF st.raised \/ st.ledgers # <<>> THEN expired ELSE queried

\* How often apply_event was called on each event (0, 1, or 2 for "more than once"),
\* or only whether it was (marked).
counted(eid) == evals' = [evals EXCEPT ![eid] = IF @ >= 2 THEN 2 ELSE @ + 1]
marked(eid) == evals' = [evals EXCEPT ![eid] = 1]
uncounted == UNCHANGED evals

\* ----------------------------------------------------------------- actions
\* sess.add(e); sess.commit(): occurred_at takes its default, utcnow
persist_event(inp) ==
    /\ Len(events) < MaxEvents
    /\ events' = Append(events, [occurred_at |-> now] @@ inp)
    /\ evals' = Append(evals, 0)
    /\ last_call' = None
    /\ session' = IF session.keeps THEN expired ELSE session
    /\ UNCHANGED <<escalations, policies, autoflush, now, ledger, appeals, cooldowns, run>>

\* PolicyEngine.apply_event, the whole call on a session no other call interleaves with
apply_event(g, eid) ==
    /\ eid \in 1..Len(events)
    /\ \A h \in Engines : run[h] = Idle
    /\ LET st == eval_rules_on(events, g, eid)
       IN /\ Len(ledger) + Len(st.ledgers) <= MaxLedger
          /\ ledger' = written(ledger, st)
          /\ cooldowns' = [cooldowns EXCEPT ![g] = st.cooldowns]
          /\ last_call' = returned(st)
          /\ session' = left(st)
    /\ UNCHANGED <<escalations, policies, autoflush, now, events, appeals, run>>

\* A faulty variant: each row is committed as it is added, the failure comes at the last
committed_row_by_row(rows, pending, ok) ==
    IF ok THEN rows \o pending ELSE rows \o SubSeq(pending, 1, Len(pending) - 1)

\* "if ledgers: self.session.commit()", the one commit of the call: the rows the session
\* holds are written together, or, when the commit raises, the transaction is rolled
\* back and none of them is
committed(rows, pending, ok) ==
    IF ok THEN rows \o pending ELSE rows

\* apply_event whose commit raises: the caller sees the exception and rolls the session
\* back; what the loops stored in self._cooldowns stays
apply_event_commit_fails(g, eid) ==
    /\ eid \in 1..Len(events)
    /\ \A h \in Engines : run[h] = Idle
    /\ LET st == eval_rules_on(events, g, eid)
       IN /\ ~st.raised
          /\ st.ledgers # <<>>
          /\ Len(ledger) + Len(st.ledgers) <= MaxLedger
          /\ ledger' = committed(ledger, st.ledgers, FALSE)
          /\ cooldowns' = [cooldowns EXCEPT ![g] = st.cooldowns]
          /\ last_call' = CommitFailed(g, eid, st.ledgers)
    /\ session' = IF session.keeps THEN expired ELSE session
    /\ UNCHANGED <<escalations, policies, autoflush, now, events, appeals, run>>

Tick ==
    /\ now < MaxTime
    /\ now' = now + 1
    /\ last_call' = None
    /\ UNCHANGED <<escalations, session, policies, autoflush, events, ledger, appeals, cooldowns, evals, run>>

\* --------------------------------------------------- apply_event, by steps
\* The same call as three kinds of step, for calls that run at the same time on
\* separate sessions: the policies are loaded, one rule is evaluated (its queries
\* see the committed rows and, with autoflush, the session's own), the session commits.
\* Their callers keep no policy object.
begin_apply(g, eid) ==
    /\ ~session.keeps
    /\ eid \in 1..Len(events)
    /\ run[g] = Idle
    /\ run' = [run EXCEPT ![g] = [event |-> eid,
                                   work |-> rule_pairs(policies_for(events[eid]), 1),
                                   ledgers |-> <<>>]]
    /\ last_call' = None
    /\ UNCHANGED <<escalations, session, policies, autoflush, now, events, ledger, appeals, cooldowns>>

eval_step(g) ==
    /\ run[g] # Idle
    /\ run[g].work # <<>>
    /\ LET w == Head(run[g].work)
           st == eval_rule(events, g, run[g].event, w[1], w[2],
                           [ledgers |-> run[g].ledgers, cooldowns |-> cooldowns[g],
                            raised |-> FALSE])
       IN /\ run' = IF st.raised THEN [run EXCEPT ![g] = Idle]
                    ELSE [run EXCEPT ![g].work = Tail(@), ![g].ledgers = st.ledgers]
          /\ cooldowns' = [cooldowns EXCEPT ![g] = st.cooldowns]
          /\ last_call' = returned(st)
    /\ UNCHANGED <<escalations, session, policies, autoflush, now, events, ledger, appeals, evals>>

commit_apply(g) ==
    /\ run[g] # Idle
    /\ run[g].work = <<>>
    /\ Len(ledger) + Len(run[g].ledgers) <= MaxLedger
    /\ ledger' = ledger \o run[g].ledgers
    /\ run' = [run EXCEPT ![g] = Idle]
    /\ last_call' = None
    /\ UNCHANGED <<escalations, session, policies, autoflush, now, events, appeals, cooldowns, evals>>

\* the loop of the tests: sess.add(e); sess.commit(); engine.apply_event(e)
persist_and_apply(inp) ==
    /\ Len(events) < SeqMaxEvents
    /\ LET eid == Len(events) + 1
           evs == Append(events, [occurred_at |-> now] @@ inp)
       IN /\ events' = evs
          /\ evals' = Append(evals, 1)
          /\ LET st == eval_rules_on(evs, 1, eid)
             IN /\ ledger' = written(ledger, st)
                /\ cooldowns' = [cooldowns EXCEPT ![1] = st.cooldowns]
                /\ last_call' = returned(st)
                /\ session' = left(st)
    /\ UNCHANGED <<escalations, policies, autoflush, now, appeals, run>>

\* ---------------------------------------------------------------- appeals
\* The commit of an appeal whose ledger_id names no ledger row depends on the database:
\* where the foreign key appeals.ledger_id -> penalty_ledger.id is enforced (the
\* migration's PostgreSQL) the commit raises IntegrityError and nothing is stored; where
\* it is not (the SQLite engine of the tests) the appeal is stored.
create_appeal(ledger_id, user_id) ==
    /\ Len(appeals) < MaxAppeals
    /\ \/ /\ appeals' = Append(appeals, [ledger_id |-> ledger_id, user_id |-> user_id,
                                         created_at |-> now, status |-> "open",
                                         moderator_user_id |-> None, decision_comment |-> None,
                                         decided_at |-> None])
          /\ last_call' = None
       \/ /\ ledger_id \notin 1..Len(ledger)
          /\ appeals' = appeals
          /\ last_call' = Raised("create_appeal", "IntegrityError")
    /\ UNCHANGED <<escalations, session, policies, autoflush, now, events, ledger, cooldowns, evals, run>>

\* A faulty variant: the row is waived whatever the decision
waive_always(rows, ledger_id, approve) ==
    IF ledger_id \in 1..Len(rows)
    THEN [rows EXCEPT ![ledger_id].status = "waived"]
    ELSE rows

\* A faulty variant: a rejection puts the row back to applied
waive_or_restore(rows, ledger_id, approve) ==
    IF ledger_id \in 1..Len(rows)
    THEN [rows EXCEPT ![ledger_id].status = IF approve THEN "waived" ELSE "applied"]
    ELSE rows

\* "if approve: ledger = session.get(...); if ledger: ledger.status = 'waived'"
waive_if_approved(rows, ledger_id, approve) ==
    IF approve /\ ledger_id \in 1..Len(rows)
    THEN [rows EXCEPT ![ledger_id].status = "waived"]
    ELSE rows

\* A faulty variant: an appeal that does not exist is passed over in silence
resolve_appeal_silent(appeal_id, moderator_id, approve, comment) ==
    /\ appeal_id \notin 1..Len(appeals)
    /\ last_call' = None
    /\ UNCHANGED <<escalations, session, policies, autoflush, now, events, ledger, appeals, cooldowns, evals, run>>

resolve_appeal(appeal_id, moderator_id, approve, comment) ==
    IF appeal_id \notin 1..Len(appeals)
    THEN \* "if not appeal: raise ValueError", before anything is assigned
         /\ last_call' = Raised("resolve_appeal", "ValueError")
         /\ UNCHANGED <<escalations, session, policies, autoflush, now, events, ledger, appeals, cooldowns, evals, run>>
    ELSE /\ appeals' = [appeals EXCEPT
                           ![appeal_id].status = IF approve THEN "approved" ELSE "rejected",
                           ![appeal_id].moderator_user_id = Some(moderator_id),
                           ![appeal_id].decision_comment = Some(comment),
                           ![appeal_id].decided_at = Some(now)]
         /\ ledger' = waive_if_approved(ledger, appeals[appeal_id].ledger_id, approve)
         /\ last_call' = None
         /\ UNCHANGED <<escalations, session, policies, autoflush, now, events, cooldowns, evals, run>>

\* ------------------------------------------------------ forgiveness, decay
\* what rule.get("forgiveness") holds; an absent key is None
Forgiveness(streak_days_to_waive, waive_percent) ==
    [forgiveness |-> [streak_days_to_waive |-> streak_days_to_waive,
                      waive_percent |-> waive_percent]]

ForgivenessRules ==
    { Forgiveness(None, None) } \cup
    { Forgiveness(Some(d), Some(pct)) : d \in {0, 1}, pct \in {0 - 100, 50, 100} }

\* the points a weekly decay run subtracts
DecayPoints == {0, 2}

\* int(x / d): Python's true division, then truncation toward zero
IntTrunc(x, d) == IF x >= 0 THEN x \div d ELSE 0 - ((0 - x) \div d)

\* _current_streak: whole days since the user's latest ledger row, 0 without one
current_streak(user_id) ==
    LET mine == {i \in 1..Len(ledger) : ledger[i].user_id = user_id}
    IN IF mine = {} THEN 0
       ELSE LET last_penalty == CHOOSE i \in mine :
                                    \A j \in mine : ledger[j].applied_at <= ledger[i].applied_at
            IN (now - ledger[last_penalty].applied_at) \div DayLen

\* the row apply_forgiveness leaves: points truncated, amount exact (Decimal)
forgiven(row, streak_days, rule) ==
    LET fg == rule.forgiveness
        to_waive == IF fg.streak_days_to_waive = None THEN 0 ELSE fg.streak_days_to_waive[1]
        pct == IF fg.waive_percent = None THEN 0 ELSE fg.waive_percent[1]
    IN IF streak_days >= to_waive
       THEN [row EXCEPT !.points = IntTrunc(row.points * (100 - pct), 100),
                        !.amount = IF row.amount # None /\ row.amount # Some(0)
                                   THEN Some((row.amount[1] * (100 - pct)) \div 100)
                                   ELSE row.amount]
       ELSE row

\* apply_forgiveness on the ledger object of row i, which the session writes with its
\* next flush.  The amounts of the model are whole: the step is taken when the exact
\* Decimal result is whole, and while the values stay within MaxMagnitude.
apply_forgiveness(user_id, i, rule) ==
    /\ i \in 1..Len(ledger)
    /\ LET row == forgiven(ledger[i], current_streak(user_id), rule)
           pct == IF rule.forgiveness.waive_percent = None THEN 0
                  ELSE rule.forgiveness.waive_percent[1]
       IN /\ ledger[i].amount # None => (ledger[i].amount[1] * (100 - pct)) % 100 = 0
          /\ row.points <= MaxMagnitude /\ 0 - row.points <= MaxMagnitude
          /\ row.amount # None => row.amount[1] <= 2 * MaxMagnitude
          /\ ledger' = [ledger EXCEPT ![i] = row]
          /\ last_call' = None
    /\ UNCHANGED <<escalations, session, policies, autoflush, now, events, appeals, cooldowns, evals, run>>

\* A faulty variant: the points stop at zero
decayed_floored(rows, user_id, points) ==
    [i \in 1..Len(rows) |->
        IF rows[i].user_id = user_id /\ rows[i].status = "applied"
        THEN [rows[i] EXCEPT !.points = Max(0, @ - points)]
        ELSE rows[i]]

\* A faulty variant: the run also deletes the rows it has decayed to nothing
decayed_purging(rows, user_id, points) ==
    SelectSeq([i \in 1..Len(rows) |->
                  IF rows[i].user_id = user_id /\ rows[i].status = "applied"
                  THEN [rows[i] EXCEPT !.points = @ - points]
                  ELSE rows[i]],
              LAMBDA r : r.points > 0)

\* the UPDATE of decay_weekly: every applied row of the user loses the points
decayed(rows, user_id, points) ==
    [i \in 1..Len(rows) |->
        IF rows[i].user_id = user_id /\ rows[i].status = "applied"
        THEN [rows[i] EXCEPT !.points = @ - points]
        ELSE rows[i]]

decay_weekly(user_id, points) ==
    IF points <= 0
    THEN /\ last_call' = None
         /\ UNCHANGED <<escalations, session, policies, autoflush, now, events, ledger, appeals, cooldowns, evals, run>>
    ELSE /\ LET rows == decayed(ledger, user_id, points)
            IN /\ \A i \in 1..Len(rows) : 0 - rows[i].points <= MaxMagnitude
               /\ ledger' = rows
         /\ last_call' = Decayed(user_id, points)
         /\ UNCHANGED <<escalations, session, policies, autoflush, now, events, appeals, cooldowns, evals, run>>

\* ------------------------------------------------------------------- specs
\* PolicyEngine.__init__: an empty cooldown map per engine
NoCooldowns == [k \in Users \X Sources |-> None]

InitWith(configs, flushes) ==
    /\ policies \in configs
    /\ autoflush \in flushes
    /\ now = 0
    /\ events = <<>>
    /\ ledger = <<>>
    /\ appeals = <<>>
    /\ cooldowns = [g \in Engines |-> NoCooldowns]
    /\ evals = <<>>
    /\ run = [g \in Engines |-> Idle]
    /\ last_call = None
    /\ escalations = <<>>
    /\ session = [keeps |-> FALSE, identity_map |-> [i \in 1..Len(policies) |-> None]]

\* One engine, events persisted and evaluated in any order and any number of times.
Init == InitWith(PolicyConfigs, BOOLEAN)

Next ==
    \/ \E inp \in EventInputs : persist_event(inp)
    \/ \E eid \in 1..MaxEvents : apply_event(1, eid) /\ counted(eid)
    \/ Tick

Spec == Init /\ [][Next]_vars

\* Two engines (two processes, or one restarted) on one database, a cooldown rule.
InitCooldown == InitWith(CooldownConfigs, {FALSE})

NextCooldown ==
    \/ \E inp \in CooldownInputs : persist_event(inp)
    \/ \E g \in Engines, eid \in 1..MaxEvents : apply_event(g, eid) /\ marked(eid)
    \/ Tick

SpecCooldown == InitCooldown /\ [][NextCooldown]_vars

\* The loop of the tests on the tests' session (sessionmaker's default, autoflush).
InitSeq == InitWith(SeqConfigs, {TRUE})

NextSeq ==
    \/ \E inp \in SeqInputs : persist_and_apply(inp)
    \/ Tick

SpecSeq == InitSeq /\ [][NextSeq]_vars

\* Two sessions whose apply_event calls interleave; each event is evaluated once.
InitConc == InitWith(ConcConfigs, BOOLEAN)

NextConc ==
    \/ \E inp \in ConcInputs : persist_event(inp)
    \/ \E g \in Engines, eid \in 1..Len(events) :
          evals[eid] = 0 /\ begin_apply(g, eid) /\ marked(eid)
    \/ \E g \in Engines : eval_step(g)
    \/ \E g \in Engines : commit_apply(g)

SpecConc == InitConc /\ [][NextConc]_vars

\* The appeal workflow on the rows one engine writes.
InitAppeal == InitWith(AppealConfigs, {FALSE})

NextAppeal ==
    \/ \E inp \in AppealInputs : persist_event(inp)
    \/ \E eid \in 1..MaxEvents : apply_event(1, eid) /\ uncounted
    \/ \E lid \in 1..(Len(ledger) + 1), u \in Users : create_appeal(lid, u)
    \/ \E a \in 1..MaxAppeals, m \in Moderators, approve \in BOOLEAN :
          resolve_appeal(a, m, approve, "ok")

SpecAppeal == InitAppeal /\ [][NextAppeal]_vars

\* The weekly decay job on the rows one engine writes.
InitDecay == InitWith(DecayConfigs, {FALSE})

NextDecay ==
    \/ \E inp \in DecayInputs : persist_event(inp)
    \/ \E eid \in 1..MaxEvents : apply_event(1, eid) /\ marked(eid)
    \/ \E u \in Users, d \in DecayPoints : decay_weekly(u, d)
    \/ Tick

SpecDecay == InitDecay /\ [][NextDecay]_vars

\* Forgiveness on the rows the engine wrote and the decay job lowered.
NextForgive ==
    \/ \E inp \in ForgiveInputs : persist_event(inp)
    \/ \E eid \in 1..Len(events) : evals[eid] = 0 /\ apply_event(1, eid) /\ marked(eid)
    \/ \E d \in DecayPoints : decay_weekly(1, d)
    \/ \E i \in 1..MaxLedger, rule \in ForgivenessRules :
          i \in 1..Len(ledger) /\ apply_forgiveness(ledger[i].user_id, i, rule)
    \/ Tick

SpecForgive == InitDecay /\ [][NextForgive]_vars

\* One engine whose commits may fail, and the caller's retries.
InitFail == InitWith(FailConfigs, BOOLEAN)

NextFail ==
    \/ \E inp \in FailInputs : persist_event(inp)
    \/ \E eid \in 1..MaxEvents : apply_event(1, eid) /\ uncounted
    \/ \E eid \in 1..MaxEvents : apply_event_commit_fails(1, eid) /\ uncounted
    \/ Tick

SpecFail == InitFail /\ [][NextFail]_vars

\* One engine, two active policies that match the same events.
InitMulti == InitWith(MultiConfigs, BOOLEAN)

NextMulti ==
    \/ \E inp \in MultiInputs : persist_event(inp)
    \/ \E eid \in 1..MaxEvents : apply_event(1, eid) /\ marked(eid)
    \/ Tick

SpecMulti == InitMulti /\ [][NextMulti]_vars

\* One engine, policies that charge money under a monthly cap.
InitMonth == InitWith(MonthConfigs, BOOLEAN)

NextMonth ==
    \/ \E inp \in MonthInputs : persist_event(inp)
    \/ \E eid \in 1..MaxEvents : apply_event(1, eid) /\ marked(eid)
    \/ Tick

SpecMonth == InitMonth /\ [][NextMonth]_vars

\* One engine, policies whose first rule is not well formed.
InitMalformed == InitWith(MalformedConfigs, {FALSE})

NextMalformed ==
    \/ \E inp \in MultiInputs : persist_event(inp)
    \/ \E eid \in 1..MaxEvents : apply_event(1, eid) /\ marked(eid)
    \/ Tick

SpecMalformed == InitMalformed /\ [][NextMalformed]_vars

\* One engine, a rule that carries a forgiveness entry: a user one clean day away from
\* the last penalty is owed half of the points and of the amount.  No caps.
forgive_policy ==
    Policy(1, TRUE, {}, {},
           <<Rule("late", GtMinutes5, 4, Some(4), None, None, None, None)
                @@ Forgiveness(Some(1), Some(50))>>,
           None, None)
PipelineConfigs == { <<forgive_policy>> }

InitPipeline == InitWith(PipelineConfigs, {FALSE})

NextPipeline ==
    \/ \E inp \in MultiInputs : persist_event(inp)
    \/ \E eid \in 1..MaxEvents : apply_event(1, eid) /\ uncounted
    \/ Tick

SpecPipeline == InitPipeline /\ [][NextPipeline]_vars

\* One engine and every operation that writes to the penalty tables: intake,
\* evaluation (of each event once), weekly decay, appeals and their decisions.
InitAudit == InitWith(AppealConfigs, {FALSE})

NextAudit ==
    \/ \E inp \in AppealInputs : persist_event(inp)
    \/ \E eid \in 1..MaxEvents :
          eid \in 1..Len(events) /\ evals[eid] = 0 /\ apply_event(1, eid) /\ marked(eid)
    \/ \E d \in {0, 5} : decay_weekly(1, d)
    \/ \E lid \in 1..Len(ledger) : create_appeal(lid, 1)
    \/ \E a \in 1..MaxAppeals, m \in Moderators, approve \in BOOLEAN :
          resolve_appeal(a, m, approve, "ok")

SpecAudit == InitAudit /\ [][NextAudit]_vars

\* One engine, a policy whose escalation config sets a threshold: the points of a
\* user's penalties under the policy at which the user is to be warned.  The variable
\* escalations is the log of the calls of warn, notify_admins, start_probation and
\* suggest_suspension made; no operation of the engine makes one.
escalate_policy == seed_policy(FALSE) @@ [escalation |-> [warn_at_points |-> 10]]
EscalationConfigs == { <<escalate_policy>> }

InitEscalation == InitWith(EscalationConfigs, {FALSE})

NextEscalation ==
    \/ \E inp \in MultiInputs : persist_event(inp)
    \/ \E eid \in 1..MaxEvents : apply_event(1, eid) /\ uncounted
    \/ Tick

SpecEscalation == InitEscalation /\ [][NextEscalation]_vars

\* One engine, a rule with a grace allowance and no cap, cooldown or dedupe key.
InitGrace == InitWith(GraceConfigs, {FALSE})

NextGrace ==
    \/ \E inp \in GraceInputs : persist_event(inp)
    \/ \E eid \in 1..MaxEvents : apply_event(1, eid) /\ uncounted
    \/ Tick

SpecGrace == InitGrace /\ [][NextGrace]_vars

\* One engine, a policy with a daily and a monthly cap, each event evaluated once,
\* and one appeal, on the first row.
InitWaive == InitWith(WaiveConfigs, {FALSE})

NextWaive ==
    \/ \E inp \in AppealInputs : persist_event(inp)
    \/ \E eid \in 1..MaxEvents :
          eid \in 1..Len(events) /\ evals[eid] = 0 /\ apply_event(1, eid) /\ marked(eid)
    \/ appeals = <<>> /\ ledger # <<>> /\ create_appeal(1, 1)
    \/ \E a \in 1..Len(appeals), m \in Moderators, approve \in BOOLEAN :
          resolve_appeal(a, m, approve, "ok")
    \/ Tick

SpecWaive == InitWaive /\ [][NextWaive]_vars

\* One engine, policies whose daily cap runs out while the monthly cap has room.
InitExhaust == InitWith(ExhaustConfigs, {FALSE})

NextExhaust ==
    \/ \E inp \in MultiInputs : persist_event(inp)
    \/ \E eid \in 1..MaxEvents : apply_event(1, eid) /\ marked(eid)
    \/ Tick

SpecExhaust == InitExhaust /\ [][NextExhaust]_vars

\* One engine, rules that differ in their thresholds, payloads around the values;
\* no rule here reads the clock.
InitThreshold == InitWith(ThresholdConfigs, {FALSE})

NextThreshold ==
    \/ \E inp \in ThresholdInputs : persist_event(inp)
    \/ \E eid \in 1..MaxEvents : apply_event(1, eid) /\ marked(eid)

SpecThreshold == InitThreshold /\ [][NextThreshold]_vars

\* One engine, active and inactive policies of different scopes; no rule here reads
\* the clock.
InitScope == InitWith(ScopeConfigs, {FALSE})

NextScope ==
    \/ \E inp \in ScopeInputs : persist_event(inp)
    \/ \E eid \in 1..MaxEvents : apply_event(1, eid) /\ marked(eid)

SpecScope == InitScope /\ [][NextScope]_vars

\* One engine, policies whose monthly cap runs out while the daily cap has room.
InitMonthOut == InitWith(MonthOutConfigs, {FALSE})

NextMonthOut ==
    \/ \E inp \in FailInputs : persist_event(inp)
    \/ \E eid \in 1..MaxEvents : apply_event(1, eid) /\ counted(eid)
    \/ Tick

SpecMonthOut == InitMonthOut /\ [][NextMonthOut]_vars

\* One engine, rules with a per-occurrence cap below and above the rule's points.
InitPerCap == InitWith(PerCapConfigs, {FALSE})

NextPerCap ==
    \/ \E inp \in MultiInputs : persist_event(inp)
    \/ \E eid \in 1..MaxEvents : apply_event(1, eid) /\ uncounted
    \/ Tick

SpecPerCap == InitPerCap /\ [][NextPerCap]_vars

\* One engine, policies under which a candidate comes to nothing: by the rule itself,
\* by the daily cap, by the daily and the monthly cap.
InitEmpty == InitWith(EmptyConfigs, {FALSE})

NextEmpty ==
    \/ \E inp \in MultiInputs : persist_event(inp)
    \/ \E eid \in 1..MaxEvents : apply_event(1, eid) /\ marked(eid)
    \/ Tick

SpecEmpty == InitEmpty /\ [][NextEmpty]_vars

\* One engine, two users, one appeal, and decay runs with positive, zero and negative
\* points; nothing here reads the clock.
InitDecayFrame == InitWith(DecayConfigs, {FALSE})

NextDecayFrame ==
    \/ \E inp \in DecayInputs : persist_event(inp)
    \/ \E eid \in 1..MaxEvents : apply_event(1, eid) /\ uncounted
    \/ appeals = <<>> /\ ledger # <<>> /\ create_appeal(1, ledger[1].user_id)
    \/ \E m \in Moderators : appeals # <<>> /\ resolve_appeal(1, m, TRUE, "ok")
    \/ \E u \in Users, d \in {0 - 1, 0, 3} : decay_weekly(u, d)

SpecDecayFrame == InitDecayFrame /\ [][NextDecayFrame]_vars

\* One engine, rules for 'late' with no grace, cooldown or daily cap, each event
\* evaluated once; nothing here reads the clock.
DedupeConfigs == { <<decay_policy>>, <<two_amount_policy>> }

InitDedupe == InitWith(DedupeConfigs, {FALSE})

NextDedupe ==
    \/ \E inp \in DedupeInputs : persist_event(inp)
    \/ \E eid \in 1..MaxEvents : eid <= Len(evals) /\ evals[eid] = 0
                                 /\ apply_event(1, eid) /\ marked(eid)

SpecDedupe == InitDedupe /\ [][NextDedupe]_vars

\* One engine and every operation that touches a ledger row: evaluation (of each event
\* once), forgiveness, weekly decay, appeals and their decisions, repeated and reversed.
InitStatus == InitWith({ <<decay_policy>> }, {FALSE})

NextStatus ==
    \/ \E inp \in AppealInputs : persist_event(inp)
    \/ \E eid \in 1..MaxEvents :
          eid \in 1..Len(events) /\ evals[eid] = 0 /\ apply_event(1, eid) /\ marked(eid)
    \/ \E d \in {0, 3} : decay_weekly(1, d)
    \/ \E i \in 1..MaxLedger :
          i \in 1..Len(ledger)
          /\ apply_forgiveness(ledger[i].user_id, i, Forgiveness(Some(0), Some(50)))
    \/ appeals = <<>> /\ ledger # <<>> /\ create_appeal(1, 1)
    \/ \E m \in Moderators, approve \in BOOLEAN : resolve_appeal(1, m, approve, "ok")

SpecStatus == InitStatus /\ [][NextStatus]_vars

\* Policy administration, through a session of its own: a policy row is deactivated,
\* or its rules column is replaced, and the change is committed.
deactivate(pi) ==
    /\ pi \in 1..Len(policies)
    /\ policies[pi].is_active
    /\ policies' = [policies EXCEPT ![pi].is_active = FALSE]
    /\ last_call' = None
    /\ UNCHANGED <<escalations, session, autoflush, now, events, ledger, appeals, cooldowns, evals, run>>

change_rules(pi, rules) ==
    /\ pi \in 1..Len(policies)
    /\ policies[pi].rules # rules
    /\ policies' = [policies EXCEPT ![pi].rules = rules]
    /\ last_call' = None
    /\ UNCHANGED <<escalations, session, autoflush, now, events, ledger, appeals, cooldowns, evals, run>>

\* the rules an administrator may put in place of decay_policy's
cheaper_rules == <<Rule("late", GtMinutes5, 1, Some(2), None, None, None, None)>>
StaleRules == { decay_policy.rules, cheaper_rules }
\* an event over the threshold and one under it, which no rule penalises
StaleInputs ==
    { PenaltyEvent(1, "late", Some(10), None),
      PenaltyEvent(1, "late", Some(3), None) }

\* One engine on a session whose caller may keep the policy objects it has seen, and
\* an administrator who changes the policy between the engine's calls; each event is
\* evaluated once.
InitStale ==
    /\ policies = <<decay_policy>>
    /\ autoflush = FALSE
    /\ now = 0
    /\ events = <<>>
    /\ ledger = <<>>
    /\ appeals = <<>>
    /\ cooldowns = [g \in Engines |-> NoCooldowns]
    /\ evals = <<>>
    /\ run = [g \in Engines |-> Idle]
    /\ last_call = None
    /\ escalations = <<>>
    /\ session \in [keeps : BOOLEAN, identity_map : {<<None>>}]

NextStale ==
    \/ \E inp \in StaleInputs : persist_event(inp)
    \/ \E eid \in 1..MaxEvents :
          eid \in 1..Len(events) /\ evals[eid] = 0 /\ apply_event(1, eid) /\ marked(eid)
    \/ deactivate(1)
    \/ \E rules \in StaleRules : change_rules(1, rules)
    \/ Tick

SpecStale == InitStale /\ [][NextStale]_vars

\* One engine and a policy with a grace allowance, one with a cooldown, one whose daily
\* cap runs out; events that miss the source or the threshold or share a dedupe key.
TraceConfigs == { <<seed_policy(TRUE)>>, <<cooldown_policy>>, <<exhaust_policy>> }

InitTrace == InitWith(TraceConfigs, {FALSE})

NextTrace ==
    \/ \E inp \in TraceInputs : persist_event(inp)
    \/ \E eid \in 1..MaxEvents : apply_event(1, eid) /\ marked(eid)
    \/ Tick

SpecTrace == InitTrace /\ [][NextTrace]_vars

\* ------------------------------------------------------------------ claims
RowIds == 1..Len(ledger)
EventIds == 1..Len(events)
Days == 0..Day(MaxTime)
Abs(x) == IF x < 0 THEN 0 - x ELSE x

PolicyById(pid) == policies[CHOOSE i \in 1..Len(policies) : policies[i].id = pid]
RuleOf(r) == PolicyById(r.policy_id).rules[r.rule]

\* the points of the committed rows of one user and policy applied on day d
DayTotal(u, pid, d) ==
    SumPoints(SelectSeq(ledger, LAMBDA r :
        r.user_id = u /\ r.policy_id = pid /\ Day(r.applied_at) = d))

DailyCapHolds ==
    \A pi \in 1..Len(policies), u \in Users, d \in Days :
        policies[pi].caps.daily.points # None
            => DayTotal(u, policies[pi].id, d) <= policies[pi].caps.daily.points[1]

\* C1: after any sequence of apply_event calls, the points of the ledger rows of one
\* (user, policy) applied on one UTC day sum to at most caps.daily.points, also when
\* one event matches several rules of the policy.
C1_DailyCap == DailyCapHolds

\* C2: apply_event calls that run at the same time on separate sessions never leave
\* the day's ledger total of a (user, policy) above caps.daily.points.
C2_CapUnderConcurrency ==
    \A g \in Engines, h \in Engines :
        (g # h /\ run[g] = Idle /\ run[h] = Idle) => DailyCapHolds

\* C3: two events with the same dedupe_key that both match the one firing rule, each
\* persisted and then evaluated once, in any order of those steps, leave exactly one
\* ledger row.
C3_DedupeExactlyOne ==
    ( /\ policies = <<seed_policy(FALSE)>>
      /\ Len(events) = 2
      /\ events[1].dedupe_key # None
      /\ events[1].dedupe_key = events[2].dedupe_key
      /\ evals = <<1, 1>> )
        => Len(ledger) = 1

\* C4: the ledger never holds two rows for the same (event, policy, rule) match, also
\* when apply_event is called again on an event that was evaluated before.
C4_ExactlyOnce ==
    \A i \in RowIds, j \in RowIds :
        (i < j /\ ledger[i].event_id = ledger[j].event_id
               /\ ledger[i].policy_id = ledger[j].policy_id)
            => ledger[i].rule # ledger[j].rule

\* rows i and j come from the same rule, which has a cooldown, for the same (user, source)
SameCooldownRule(i, j) ==
    /\ ledger[i].policy_id = ledger[j].policy_id
    /\ ledger[i].rule = ledger[j].rule
    /\ ledger[i].user_id = ledger[j].user_id
    /\ ledger[i].reasons = ledger[j].reasons
    /\ RuleOf(ledger[i]).cooldown_min # None
    /\ RuleOf(ledger[i]).cooldown_min # Some(0)

C6_CooldownAcrossEngines ==
    \A i \in RowIds, j \in RowIds :
        ( /\ i < j
          /\ SameCooldownRule(i, j)
          /\ \A k \in 1..(j - 1) : ledger[k].engine # ledger[j].engine )
            => ledger[j].applied_at - ledger[i].applied_at >= RuleOf(ledger[i]).cooldown_min[1]

\* -- the loop of the tests: one policy with one rule
TheRule == policies[1].rules[1]
RulePoints ==
    IF TheRule.per_occurrence_cap.points # None
    THEN Min(TheRule.points, TheRule.per_occurrence_cap.points[1]) ELSE TheRule.points
GraceCount ==
    IF TheRule.grace.count_per_day = None THEN 0 ELSE TheRule.grace.count_per_day[1]
DailyCap == policies[1].caps.daily.points[1]

Qualifies(e) ==
    /\ events[e].source = TheRule.when
    /\ events[e].payload.minutes # None
    /\ events[e].payload.minutes[1] > 5
    /\ events[e].dedupe_key = None

\* the events up to i of the user, source and day of event i
Peers(i) ==
    {k \in 1..i : /\ events[k].user_id = events[i].user_id
                  /\ events[k].source = events[i].source
                  /\ Day(events[k].occurred_at) = Day(events[i].occurred_at)}
Rank(i) == Cardinality(Peers(i))
RowsFor(i) == {k \in RowIds : ledger[k].event_id = i}

\* the points the user of event i had on the day of event i before event i was evaluated
SpentBefore(i) ==
    SumPoints(SelectSeq(ledger, LAMBDA r :
        /\ r.user_id = events[i].user_id
        /\ r.policy_id = policies[1].id
        /\ Day(r.applied_at) = Day(events[i].occurred_at)
        /\ r.event_id < i))

\* C7 as claimed: with grace.count_per_day = 1 the 1st and the 2nd of a user's same-day
\* same-source qualifying events get no ledger row.
C7_GraceForgivesFirstTwo ==
    TheRule.grace.count_per_day = Some(1) =>
        \A i \in EventIds :
            ((\A k \in Peers(i) : Qualifies(k)) /\ Rank(i) <= 2) => RowsFor(i) = {}

\* C7 amended: only the 1st event gets no row; the 2nd gets one, and so does each later
\* one while the daily cap leaves budget.
C7_GraceForgivesFirstOnly ==
    TheRule.grace.count_per_day = Some(1) =>
        \A i \in EventIds :
            (\A k \in Peers(i) : Qualifies(k)) =>
                /\ Rank(i) = 1 => RowsFor(i) = {}
                /\ Rank(i) = 2 => Cardinality(RowsFor(i)) = 1
                /\ Rank(i) >= 3 => (RowsFor(i) # {} <=> SpentBefore(i) < DailyCap)

C7_SecondPenalised ==
    /\ TheRule.grace.count_per_day = Some(1)
    /\ \E i \in EventIds, j \in EventIds :
          /\ i \in Peers(j) /\ Rank(i) = 1 /\ Rank(j) = 2
          /\ \A k \in Peers(j) : Qualifies(k)
          /\ RowsFor(i) = {}
          /\ RowsFor(j) # {}

\* the user's events of the rule's source on day d
EventsOfDay(u, d) ==
    {k \in EventIds : /\ events[k].user_id = u
                      /\ events[k].source = TheRule.when
                      /\ Day(events[k].occurred_at) = d}
RowsOfDay(u, d) ==
    {k \in RowIds : /\ ledger[k].user_id = u
                    /\ ledger[k].policy_id = policies[1].id
                    /\ Day(ledger[k].applied_at) = d}

\* C8: k qualifying same-day events of one user through a rule of p points with grace g
\* under the daily cap P leave rows that total min(max(k - g, 0) * p, P), none of them
\* after the cap is reached; p = 5, g = 1, P = 10, k = 4 gives 2 rows totalling 10.
C8_GraceAndCapTotal ==
    \A u \in Users, d \in Days :
        (\A k \in EventsOfDay(u, d) : Qualifies(k)) =>
            LET k == Cardinality(EventsOfDay(u, d))
                total == Min(Max(k - GraceCount, 0) * RulePoints, DailyCap)
            IN /\ DayTotal(u, policies[1].id, d) = total
               /\ Cardinality(RowsOfDay(u, d)) = (total + RulePoints - 1) \div RulePoints
               /\ (policies = <<seed_policy(TRUE)>> /\ k = 4)
                     => (Cardinality(RowsOfDay(u, d)) = 2 /\ DayTotal(u, policies[1].id, d) = 10)

C8_FourEventsTwoRows ==
    /\ policies = <<seed_policy(TRUE)>>
    /\ \E u \in Users, d \in Days :
          /\ Cardinality(EventsOfDay(u, d)) = 4
          /\ \A k \in EventsOfDay(u, d) : Qualifies(k)
          /\ Cardinality(RowsOfDay(u, d)) = 2
          /\ DayTotal(u, policies[1].id, d) = 10

\* C9: without grace, the i-th qualifying same-day event of a user gets a row of
\* min(p, P - sum_so_far) points when that is positive and no row otherwise; p = 5,
\* P = 10 and four events give the rows [5, 5].
C9_RemainingBudget ==
    GraceCount = 0 =>
        /\ \A i \in EventIds :
              LET budget == Min(RulePoints, DailyCap - SpentBefore(i))
              IN IF Qualifies(i) /\ budget > 0
                 THEN /\ Cardinality(RowsFor(i)) = 1
                      /\ \A k \in RowsFor(i) : ledger[k].points = budget
                 ELSE RowsFor(i) = {}
        /\ ( /\ policies = <<seed_policy(FALSE)>>
             /\ Len(events) = 4
             /\ \A i \in EventIds : Qualifies(i) /\ Peers(i) = 1..i )
              => /\ Len(ledger) = 2
                 /\ ledger[1].points = 5 /\ ledger[1].event_id = 1
                 /\ ledger[2].points = 5 /\ ledger[2].event_id = 2

C9_Clamped ==
    /\ GraceCount = 0
    /\ \E i \in EventIds, k \in RowIds :
          /\ Qualifies(i)
          /\ ledger[k].event_id = i
          /\ SpentBefore(i) > 0
          /\ ledger[k].points = DailyCap - SpentBefore(i)
          /\ ledger[k].points < RulePoints
    /\ \E j \in EventIds : Qualifies(j) /\ SpentBefore(j) >= DailyCap /\ RowsFor(j) = {}

\* C10: resolve_appeal with approve sets the status of the referenced ledger row to
\* waived and keeps the row; with approve = false it leaves every ledger row as it was.
C10_AppealDecisionEffect ==
    [][\A a \in 1..Len(appeals), m \in Moderators, approve \in BOOLEAN :
          resolve_appeal(a, m, approve, "ok") =>
              /\ Len(ledger') = Len(ledger)
              /\ \A i \in RowIds :
                    IF approve /\ i = appeals[a].ledger_id
                    THEN ledger'[i] = [ledger[i] EXCEPT !.status = "waived"]
                    ELSE ledger'[i] = ledger[i]]_vars

C10_ApprovedAndRejected ==
    \E a \in 1..Len(appeals), b \in 1..Len(appeals) :
        /\ appeals[a].status = "approved"
        /\ appeals[a].ledger_id \in RowIds
        /\ ledger[appeals[a].ledger_id].status = "waived"
        /\ appeals[b].status = "rejected"
        /\ appeals[b].ledger_id \in RowIds
        /\ ledger[appeals[b].ledger_id].status = "applied"

\* C11: create_appeal on a ledger id that names no ledger row fails and stores no
\* Appeal, so every stored appeal references a ledger row (rows are never deleted);
\* on an existing row it stores one open appeal that references it.
C11_AppealNeedsLedgerRow ==
    \A a \in 1..Len(appeals) : appeals[a].ledger_id \in RowIds

\* C12: resolve_appeal on an appeal id that does not exist raises the not-found error
\* and leaves every appeal and every ledger row as it was.
C12_MissingAppealNotFound ==
    [][\A a \in 1..MaxAppeals, m \in Moderators, approve \in BOOLEAN :
          (a \notin 1..Len(appeals) /\ resolve_appeal(a, m, approve, "ok")) =>
              /\ last_call' = Raised("resolve_appeal", "ValueError")
              /\ appeals' = appeals
              /\ ledger' = ledger]_vars

\* the not-found error was raised with an open appeal and an applied row in the tables
C12_RaisedNotFound ==
    /\ last_call = Raised("resolve_appeal", "ValueError")
    /\ \E a \in 1..Len(appeals) : appeals[a].status = "open" /\ appeals[a].ledger_id \in RowIds
    /\ \E i \in RowIds : ledger[i].status = "applied"

\* C13: no operation changes the points or the amount of a ledger row that was
\* committed; only its status may change, and no row is removed.
C13_LedgerValuesImmutable ==
    [][/\ Len(ledger') >= Len(ledger)
       /\ \A i \in RowIds : /\ ledger'[i].points = ledger[i].points
                            /\ ledger'[i].amount = ledger[i].amount]_vars

\* C16: apply_forgiveness never increases the points or the amount of the row,
\* whatever the row, the streak and the rule's forgiveness configuration.
C16_ForgivenessMonotone ==
    [][\A i \in RowIds, rule \in ForgivenessRules :
          apply_forgiveness(ledger[i].user_id, i, rule) =>
              /\ ledger'[i].points <= ledger[i].points
              /\ ledger[i].amount # None =>
                    (ledger'[i].amount # None /\ ledger'[i].amount[1] <= ledger[i].amount[1])]_vars

\* C17: a second decay_weekly run for the same user and points in the same weekly
\* period (a retry) leaves every ledger row as the first run left it.
C17_DecayIdempotent ==
    [][\A u \in Users, d \in DecayPoints :
          (last_call = Decayed(u, d) /\ decay_weekly(u, d)) => ledger' = ledger]_vars

\* the last call was an apply_event of engine g on event eid whose commit raised
FailedOn(g, eid) ==
    /\ Len(last_call) = 5
    /\ last_call[1] = "apply_event"
    /\ last_call[3] = g
    /\ last_call[4] = eid

\* C14: when the commit at the end of apply_event fails, none of the rows the call
\* created is in the ledger afterwards: the ledger is as it was before the call.
C14_AllOrNothing ==
    [][\A eid \in 1..MaxEvents : apply_event_commit_fails(1, eid) => ledger' = ledger]_vars

\* a commit failed on a call that had created two rows, and the ledger holds no row
C14_TwoRowsRolledBack ==
    /\ \E eid \in EventIds : FailedOn(1, eid) /\ Len(last_call[5]) = 2
    /\ ledger = <<>>

\* C15: when apply_event(e) failed at commit and the caller calls it again on the same
\* engine with the tables unchanged, the retry commits the rows the failed call had
\* created.
C15_RetryRederives ==
    [][\A eid \in 1..MaxEvents :
          (FailedOn(1, eid) /\ apply_event(1, eid)) => ledger' = ledger \o last_call[5]]_vars

\* the rows before row k of the user and the policy of row k applied since time start
Earlier(k, start) ==
    SelectSeq(SubSeq(ledger, 1, k - 1), LAMBDA r :
        /\ r.user_id = ledger[k].user_id
        /\ r.policy_id = ledger[k].policy_id
        /\ r.applied_at >= start)

\* C18: the budget of a row under policy B is computed from the rows of policy B alone:
\* every row holds the rule's points and amount clamped to what the earlier rows of the
\* same user and the same policy left of that policy's daily and monthly cap.
C18_CapsPerPolicy ==
    \A k \in RowIds :
        LET r == ledger[k]
            pol == PolicyById(r.policy_id)
            rule == RuleOf(r)
            spent == SumPoints(Earlier(k, DayStart(r.applied_at)))
            paid == SumAmount(Earlier(k, MonthStart(r.applied_at)))
            cap == pol.caps.daily.points
            mcap == pol.caps.month.amount
        IN /\ r.points = IF cap = None THEN rule.points ELSE Min(rule.points, cap[1] - spent)
           /\ r.amount = IF rule.amount = None \/ mcap = None THEN rule.amount
                          ELSE IF paid >= mcap[1] THEN None
                          ELSE Some(Min(rule.amount[1], mcap[1] - paid))

\* a user who has used up the daily cap of policy 1 got the full rule points under
\* policy 2 on that day, in the same call and in a later one
C18_FullPointsUnderOther ==
    \E i \in RowIds, j \in RowIds, k \in RowIds :
        /\ i < j /\ j < k
        /\ policies[1].caps.daily.points # None
        /\ ledger[i].policy_id = policies[1].id
        /\ ledger[i].points = policies[1].caps.daily.points[1]
        /\ ledger[j].policy_id = policies[2].id /\ ledger[k].policy_id = policies[2].id
        /\ ledger[j].user_id = ledger[i].user_id /\ ledger[k].user_id = ledger[i].user_id
        /\ ledger[j].event_id = ledger[i].event_id /\ ledger[k].event_id # ledger[i].event_id
        /\ ledger[j].points = policies[2].rules[1].points
        /\ ledger[k].points = policies[2].caps.daily.points[1] - ledger[j].points
        /\ Day(ledger[k].applied_at) = Day(ledger[i].applied_at)

\* the rows apply_event would add for event eid if policy pi were the only policy
AloneRows(eid, pi) ==
    eval_rules(events, 1, eid,
               rule_pairs(SelectSeq(policies_for(events[eid]), LAMBDA q : q = pi), 1),
               [ledgers |-> <<>>, cooldowns |-> cooldowns[1], raised |-> FALSE]).ledgers

\* C19: the rows one apply_event call creates for a policy are the rows it would create
\* if no other policy matched the event, whatever the order of the policies.
C19_PolicyIndependence ==
    [][\A eid \in 1..MaxEvents :
          apply_event(1, eid) =>
              \A pi \in 1..Len(policies) :
                  SelectSeq(SubSeq(ledger', Len(ledger) + 1, Len(ledger')),
                            LAMBDA r : r.policy_id = policies[pi].id)
                      = AloneRows(eid, pi)]_vars

Month(t) == t \div (DayLen * DaysPerMonth)
Months == 0..Month(MaxTime)

\* the amounts of the committed rows of one user and policy applied in month m
MonthTotal(u, pid, m) ==
    SumAmount(SelectSeq(ledger, LAMBDA r :
        r.user_id = u /\ r.policy_id = pid /\ Month(r.applied_at) = m))

\* C20: after any sequence of apply_event calls the amounts of the ledger rows of one
\* (user, policy) applied in one calendar month sum to at most caps.month.amount.
C20_MonthlyAmountCap ==
    \A pi \in 1..Len(policies), u \in Users, m \in Months :
        policies[pi].caps.month.amount # None
            => MonthTotal(u, policies[pi].id, m) <= policies[pi].caps.month.amount[1]

IsMalformed(rule) == "absent" \in DOMAIN rule

\* C21: a rule that lacks "when" or "points", or whose thresholds or per_occurrence_cap
\* is null, is skipped: apply_event creates no ledger row from it, raises nothing to its
\* caller, and still evaluates the remaining rules (every evaluated event has the row of
\* the well-formed rule that follows).
C21_MalformedSkipped ==
    /\ last_call # Raised("apply_event", "AttributeError")
    /\ \A k \in RowIds : ~IsMalformed(RuleOf(ledger[k]))
    /\ \A eid \in EventIds :
           evals[eid] = 1 =>
               \E k \in RowIds : ledger[k].event_id = eid /\ RuleOf(ledger[k]) = well_formed_rule

\* C22: forgiveness is a step of apply_event: every row a call commits for a user whose
\* clean streak has reached rule.forgiveness.streak_days_to_waive carries the rule's
\* points and amount already reduced by waive_percent.
C22_ForgivenessInPipeline ==
    [][\A eid \in 1..MaxEvents :
          apply_event(1, eid) =>
              \A k \in (Len(ledger) + 1)..Len(ledger') :
                  LET row == ledger'[k]
                      rule == RuleOf(row)
                      fg == rule.forgiveness
                  IN current_streak(row.user_id) >= fg.streak_days_to_waive[1]
                         => /\ row.points
                                = IntTrunc(rule.points * (100 - fg.waive_percent[1]), 100)
                            /\ row.amount
                                = Some((rule.amount[1] * (100 - fg.waive_percent[1])) \div 100)]_vars

\* C23: no step deletes a ledger row or an event: the tables only grow, every row keeps
\* its place, its event, user, policy and time of application, and every persisted
\* event keeps every field.
C23_AuditRetention ==
    [][/\ Len(ledger') >= Len(ledger)
       /\ \A k \in RowIds :
              /\ ledger'[k].event_id = ledger[k].event_id
              /\ ledger'[k].user_id = ledger[k].user_id
              /\ ledger'[k].policy_id = ledger[k].policy_id
              /\ ledger'[k].applied_at = ledger[k].applied_at
       /\ Len(events') >= Len(events)
       /\ \A e \in EventIds : events'[e] = events[e]]_vars

\* two events, a row an approved appeal has waived, and a row decay has run over
C23_WaivedAndDecayed ==
    /\ Len(events) >= 2
    /\ \E k \in RowIds : ledger[k].status = "waived"
    /\ \E k \in RowIds : ledger[k].status = "applied" /\ ledger[k].points <= 0

\* the points of the rows of user u under policy pid among rows
PointsUnder(rows, u, pid) ==
    SumPoints(SelectSeq(rows, LAMBDA r : r.user_id = u /\ r.policy_id = pid))

\* C24: an apply_event call whose committed rows take a user's points under a policy
\* from below the threshold of policy.escalation to it or beyond has invoked an
\* escalation capability for that user by the time it returns.
C24_EscalationTriggered ==
    [][\A eid \in 1..MaxEvents, pi \in 1..Len(policies), u \in Users :
          LET at == policies[pi].escalation.warn_at_points
              pid == policies[pi].id
          IN (/\ apply_event(1, eid)
              /\ PointsUnder(ledger, u, pid) < at
              /\ PointsUnder(ledger', u, pid) >= at)
                 => \E i \in 1..Len(escalations') : escalations'[i].user_id = u]_vars

\* the persisted events of the user and source of event eid that occurred on the
\* current day
TodaysEvents(eid) ==
    {i \in EventIds : /\ events[i].user_id = events[eid].user_id
                      /\ events[i].source = events[eid].source
                      /\ Day(events[i].occurred_at) = Day(now)}

\* C25: an apply_event call on an event that matches the rule and passes its threshold
\* adds no row exactly when the persisted events of the same user and source that
\* occurred on the current day, the event itself and the unpenalised ones among them,
\* number at most grace.count_per_day.
C25_GraceExact ==
    [][\A eid \in 1..MaxEvents :
          (/\ apply_event(1, eid)
           /\ events[eid].source = "late"
           /\ events[eid].payload.minutes # None
           /\ events[eid].payload.minutes[1] > 5)
              => (Len(ledger') = Len(ledger)
                     <=> Cardinality(TodaysEvents(eid))
                             <= policies[1].rules[1].grace.count_per_day[1])]_vars

\* with an allowance of 1: an event penalised because an event under the threshold
\* came the same day, and an event forgiven beside an event of another source
C25_CountsUnpenalised ==
    /\ policies[1].rules[1].grace.count_per_day = Some(1)
    /\ Len(events) = 2
    /\ events[1].user_id = 1 /\ events[2].user_id = 1
    /\ events[1].source = "late" /\ events[1].payload.minutes = Some(3)
    /\ events[2].source = "late" /\ events[2].payload.minutes = Some(10)
    /\ events[1].occurred_at = events[2].occurred_at
    /\ \E k \in RowIds : ledger[k].event_id = 2

\* C26: a decided appeal stays as decided: once its status is no longer 'open', no step
\* changes its status, moderator or decision.
C26_DecisionsTerminal ==
    [][\A a \in 1..Len(appeals) :
          appeals[a].status # "open" =>
              /\ appeals'[a].status = appeals[a].status
              /\ appeals'[a].moderator_user_id = appeals[a].moderator_user_id
              /\ appeals'[a].decision_comment = appeals[a].decision_comment]_vars

\* C27: a step that waives a ledger row leaves what _apply_caps grants unchanged: for
\* every user, policy and candidate the capped points and amount computed over the
\* ledger after the waiver are those computed over the ledger before it.
C27_WaiverKeepsBudget ==
    [][(\E k \in RowIds : ledger[k].status = "applied" /\ ledger'[k].status = "waived")
          => \A u \in Users, pi \in 1..Len(policies), a \in {None, Some(4)} :
                 apply_caps(u, policies[pi], policies[pi].rules[1].points, a, ledger')
                     = apply_caps(u, policies[pi], policies[pi].rules[1].points, a, ledger)]_vars

\* the first row was waived before the second was applied, on the same day: the
\* second still got only what the first had left of the daily and the monthly cap
C27_ClampedAfterWaiver ==
    /\ Len(ledger) >= 2
    /\ ledger[1].status = "waived"
    /\ \E a \in 1..Len(appeals) :
           /\ appeals[a].ledger_id = 1 /\ appeals[a].status = "approved"
           /\ appeals[a].decided_at[1] < ledger[2].applied_at
    /\ Day(ledger[2].applied_at) = Day(ledger[1].applied_at)
    /\ ledger[2].points = policies[1].caps.daily.points[1] - ledger[1].points
    /\ ledger[2].amount = Some(policies[1].caps.month.amount[1] - ledger[1].amount[1])

\* C28: an apply_event call made when the day's points of the user under the policy
\* have reached caps.daily.points adds no row, whatever amount the rule carries and
\* whatever is left of the monthly cap.
C28_ExhaustedAddsNoRow ==
    [][\A eid \in 1..MaxEvents :
          (/\ apply_event(1, eid)
           /\ policies[1].caps.daily.points # None
           /\ DayTotal(events[eid].user_id, policies[1].id, Day(now))
                  >= policies[1].caps.daily.points[1])
              => ledger' = ledger]_vars

\* an evaluated event over the threshold without a row, its user at the daily cap
\* and short of the monthly cap
C28_RejectedWithMonthLeft ==
    \E eid \in EventIds :
        /\ evals[eid] = 1
        /\ RowsFor(eid) = {}
        /\ events[eid].payload.minutes = Some(10)
        /\ DayTotal(events[eid].user_id, policies[1].id, Day(now))
               = policies[1].caps.daily.points[1]
        /\ MonthTotal(events[eid].user_id, policies[1].id, Month(now))
               < policies[1].caps.month.amount[1]

\* an entry passes when the payload has the metric and the metric is strictly above
\* the value of a gt_ entry, strictly below the value of an lt_ entry
EntryPasses(th, payload) ==
    /\ payload[th.metric] # None
    /\ th.prefix = "gt" => payload[th.metric][1] > th.val
    /\ th.prefix = "lt" => payload[th.metric][1] < th.val

\* C29: an apply_event call adds a row for the rule exactly when every entry of the
\* rule's thresholds passes; an entry whose metric the payload lacks, or equals the
\* value, does not pass.
C29_ThresholdFailsClosed ==
    [][\A eid \in 1..MaxEvents :
          apply_event(1, eid) =>
              LET thresholds == policies[1].rules[1].thresholds
              IN Len(ledger') > Len(ledger)
                     <=> \A i \in 1..Len(thresholds) :
                             EntryPasses(thresholds[i], events[eid].payload)]_vars

\* under gt_minutes 5 and lt_minutes 10: evaluated events at 5 or at 10 and without
\* the metric that got no row
C29_EqualityAndAbsenceFail ==
    /\ policies[1].rules[1].thresholds = GtMinutes5LtMinutes10
    /\ Len(events) = 2
    /\ \A eid \in EventIds : evals[eid] = 1 /\ RowsFor(eid) = {}
    /\ \E eid \in EventIds : events[eid].payload.minutes \in {Some(5), Some(10)}
    /\ \E eid \in EventIds : events[eid].payload.minutes = None

\* a scope list matches when it is empty or holds the event's id; no id, no match
ListMatches(ids, id) == ids = {} \/ (id # None /\ id[1] \in ids)
InScope(policy, event) ==
    /\ policy.is_active
    /\ ListMatches(policy.scope.direction_ids, event.direction_id)
    /\ ListMatches(policy.scope.point_ids, event.point_id)

\* C30: the rows an apply_event call adds are rows of the policies that are active and
\* whose scope matches the event, one for each of them here, where every rule fires.
C30_PolicySelection ==
    [][\A eid \in 1..MaxEvents :
          apply_event(1, eid) =>
              {ledger'[k].policy_id : k \in (Len(ledger) + 1)..Len(ledger')}
                  = {policies[pi].id : pi \in {i \in 1..Len(policies) :
                                                   InScope(policies[i], events[eid])}}]_vars

\* an evaluated event without a direction and with point 2 whose rows are those of the
\* active policy scoped to point 2 alone: none under the policy scoped to direction 1,
\* none under the inactive policy of empty scope
C30_OnlyMatchingPolicy ==
    /\ Len(policies) = 3
    /\ \E eid \in EventIds :
           /\ evals[eid] = 1
           /\ events[eid].direction_id = None /\ events[eid].point_id = Some(2)
           /\ {ledger[k].policy_id : k \in RowsFor(eid)} = {3}

\* C31: an apply_event call made when the month's amounts of the user under the policy
\* have reached caps.month.amount and the day's points have not reached
\* caps.daily.points adds the row, with the points the daily cap leaves and no amount.
C31_MonthExhaustedDropsAmount ==
    [][\A eid \in 1..MaxEvents :
          LET u == events[eid].user_id
              pid == policies[1].id
              spent == DayTotal(u, pid, Day(now))
              cap == policies[1].caps.daily.points[1]
          IN (/\ apply_event(1, eid)
              /\ MonthTotal(u, pid, Month(now)) >= policies[1].caps.month.amount[1]
              /\ spent < cap)
                 => /\ Len(ledger') = Len(ledger) + 1
                    /\ ledger'[Len(ledger')].event_id = eid
                    /\ ledger'[Len(ledger')].points = Min(policies[1].rules[1].points, cap - spent)
                    /\ ledger'[Len(ledger')].amount = None]_vars

\* a row with points and without an amount, applied in a month whose earlier rows of
\* the user hold the whole monthly cap
C31_PointsWithoutAmount ==
    \E k \in RowIds :
        /\ ledger[k].points > 0
        /\ ledger[k].amount = None
        /\ SumAmount(Earlier(k, MonthStart(ledger[k].applied_at)))
               = PolicyById(ledger[k].policy_id).caps.month.amount[1]

\* C32: every row an apply_event call adds holds at most the rule's points and at most
\* per_occurrence_cap.points when that is set; its amount, when present, is at most the
\* rule's amount and at most per_occurrence_cap.amount when that is set.
C32_CapsOnlyLower ==
    [][\A eid \in 1..MaxEvents :
          apply_event(1, eid) =>
              \A k \in (Len(ledger) + 1)..Len(ledger') :
                  LET row == ledger'[k]
                      rule == RuleOf(row)
                      per_cap == rule.per_occurrence_cap
                  IN /\ row.points <= rule.points
                     /\ per_cap.points # None => row.points <= per_cap.points[1]
                     /\ row.amount # None =>
                            /\ rule.amount # None
                            /\ row.amount[1] <= rule.amount[1]
                            /\ per_cap.amount # None => row.amount[1] <= per_cap.amount[1]]_vars

\* a row at the per-occurrence cap, below the rule's points and amount, and a later
\* row of the day that the daily and the monthly cap lowered further
C32_LoweredTwice ==
    \E j \in RowIds, k \in RowIds :
        LET rule == RuleOf(ledger[j])
        IN /\ j < k
           /\ ledger[k].user_id = ledger[j].user_id
           /\ rule.per_occurrence_cap.points # None
           /\ ledger[j].points = rule.per_occurrence_cap.points[1]
           /\ ledger[j].points < rule.points
           /\ ledger[j].amount = rule.per_occurrence_cap.amount
           /\ ledger[j].amount[1] < rule.amount[1]
           /\ ledger[k].points < ledger[j].points
           /\ ledger[k].amount # None /\ ledger[k].amount[1] < ledger[j].amount[1]

\* C33: no ledger row has 0 points and no amount or an amount of 0, and no call has
\* raised: a candidate that comes to nothing is dropped silently.
C33_NoEmptyPenalty ==
    /\ \A k \in RowIds :
           ~(ledger[k].points = 0 /\ (ledger[k].amount = None \/ ledger[k].amount = Some(0)))
    /\ last_call = None

\* an evaluated event over the threshold that got no row: under the rule of 0 points
\* and amount 0, and under a daily cap other rows of the day have used up
C33_DroppedSilently ==
    /\ last_call = None
    /\ \E eid \in EventIds :
           /\ evals[eid] = 1
           /\ RowsFor(eid) = {}
           /\ events[eid].payload.minutes = Some(10)
           /\ \/ policies[1] = zero_policy
              \/ /\ policies[1].caps.daily.points # None
                 /\ DayTotal(events[eid].user_id, policies[1].id, Day(now))
                        = policies[1].caps.daily.points[1]

\* whole days since the latest ledger row of the user of row i other than row i itself,
\* 0 when the user has no other row
StreakBefore(i) ==
    LET others == {j \in RowIds : j # i /\ ledger[j].user_id = ledger[i].user_id}
    IN IF others = {} THEN 0
       ELSE LET last == CHOOSE j \in others :
                            \A k \in others : ledger[k].applied_at <= ledger[j].applied_at
            IN (now - ledger[last].applied_at) \div DayLen

\* C34: apply_forgiveness on row i, with the streak counted from the user's latest row
\* other than row i: when the streak has reached streak_days_to_waive the points become
\* floor(points * (100 - waive_percent) / 100) and the amount is scaled by the same
\* factor; otherwise the row is unchanged.
C34_ForgivenessResult ==
    [][\A i \in RowIds, rule \in ForgivenessRules :
          apply_forgiveness(ledger[i].user_id, i, rule) =>
              LET fg == rule.forgiveness
                  to_waive == IF fg.streak_days_to_waive = None THEN 0
                              ELSE fg.streak_days_to_waive[1]
                  pct == IF fg.waive_percent = None THEN 0 ELSE fg.waive_percent[1]
              IN IF StreakBefore(i) >= to_waive
                 THEN /\ ledger'[i].points = (ledger[i].points * (100 - pct)) \div 100
                      /\ ledger[i].amount # None =>
                             ledger'[i].amount = Some((ledger[i].amount[1] * (100 - pct)) \div 100)
                 ELSE ledger'[i] = ledger[i]]_vars

\* C35: decay_weekly(u, d) with d > 0 takes exactly d from the points of every applied
\* row of user u, below zero where the row holds less, and changes nothing else: no
\* other row, no amount, no status; with d <= 0 it changes no row.
C35_DecayEffectAndFrame ==
    [][\A u \in Users, d \in {0 - 1, 0, 3} :
          decay_weekly(u, d) =>
              /\ Len(ledger') = Len(ledger)
              /\ \A k \in RowIds :
                     ledger'[k] = IF d > 0 /\ ledger[k].user_id = u /\ ledger[k].status = "applied"
                                  THEN [ledger[k] EXCEPT !.points = ledger[k].points - d]
                                  ELSE ledger[k]]_vars

\* after decay runs for one user: an applied row of that user below zero, a waived row
\* of that user and a row of the other user with the points they were written with
C35_NegativeBesideUntouched ==
    \E i \in RowIds, j \in RowIds, k \in RowIds :
        /\ ledger[i].status = "applied" /\ ledger[i].points < 0
        /\ ledger[j].user_id = ledger[i].user_id
        /\ ledger[j].status = "waived" /\ ledger[j].points = RuleOf(ledger[j]).points
        /\ ledger[k].user_id # ledger[i].user_id
        /\ ledger[k].points = RuleOf(ledger[k]).points
        /\ ledger[i].amount = RuleOf(ledger[i]).amount

\* C36, as stated: an event carrying a dedupe_key gets no ledger row under any rule
\* whenever some other persisted event has the same key, whatever that event's user
\* or source and whether or not it was penalized.  Refuted by the empty key.
C36_DedupeOnAnyKey ==
    [][\A eid \in EventIds :
          (/\ apply_event(1, eid)
           /\ events[eid].dedupe_key # None
           /\ \E i \in EventIds \ {eid} : events[i].dedupe_key = events[eid].dedupe_key)
          => ledger' = ledger]_vars

\* C36, amended: an event carrying a non-empty dedupe_key gets no ledger row under any
\* rule whenever some other persisted event has the same key, whatever that event's
\* user or source and whether or not it was penalized; an event whose key is absent
\* or empty is never suppressed by dedupe, also when another event has the same key.
C36_DedupeOnNonEmptyKey ==
    [][\A eid \in EventIds :
          apply_event(1, eid) =>
              LET key == events[eid].dedupe_key
                  shared == \E i \in EventIds \ {eid} : events[i].dedupe_key = key
              IN /\ (key \notin {None, Some("")} /\ shared) => ledger' = ledger
                 /\ (key \in {None, Some("")} /\ events[eid].source = "late")
                        => Len(ledger') > Len(ledger)]_vars

\* a 'late' event was evaluated and has no row; the only other event with its key is
\* another user's, of another source, never evaluated and never penalized
C36_SuppressedByStrangersKey ==
    \E e \in EventIds, p \in EventIds :
        /\ e # p /\ evals[e] = 1 /\ evals[p] = 0
        /\ events[e].source = "late" /\ events[e].dedupe_key = Some("a")
        /\ events[p].dedupe_key = Some("a")
        /\ events[p].user_id # events[e].user_id /\ events[p].source # "late"
        /\ ledger = <<>>

\* C37: no step removes a ledger row or changes a row's status, except that a step in
\* which an appeal on the row is decided as approved may set it to waived; so a waived
\* row stays waived for ever and no row returns to applied.
C37_WaivedIsAbsorbing ==
    [][/\ Len(ledger') >= Len(ledger)
       /\ \A k \in RowIds :
              /\ ledger[k].status = "waived" => ledger'[k].status = "waived"
              /\ ledger'[k].status # ledger[k].status =>
                     /\ ledger'[k].status = "waived"
                     /\ \E a \in 1..Len(appeals) :
                            /\ appeals[a].ledger_id = k
                            /\ appeals'[a].status = "approved"
                            /\ appeals'[a] # appeals[a] \/ appeals[a].status = "approved"
       /\ \A k \in (1..Len(ledger')) \ RowIds : ledger'[k].status = "applied"]_vars

\* a waived row whose appeals were all decided as rejected afterwards, its points since
\* lowered by forgiveness or left alone by decay
C37_WaivedAfterRejection ==
    \E k \in RowIds :
        /\ ledger[k].status = "waived"
        /\ \E a \in 1..Len(appeals) : appeals[a].ledger_id = k
        /\ \A a \in 1..Len(appeals) : appeals[a].ledger_id = k => appeals[a].status = "rejected"
        /\ ledger[k].points < RuleOf(ledger[k]).points

\* C38: every apply_event call evaluates the policies as the table holds them when it
\* is called: each row it adds is under a policy that is active and carries the points
\* and amount of that policy's rule as they now stand (the policy here has no cap).
C38_EvaluatesCurrentPolicies ==
    [][\A eid \in EventIds :
          apply_event(1, eid) =>
              \A k \in (1..Len(ledger')) \ RowIds :
                  LET p == PolicyById(ledger'[k].policy_id)
                  IN /\ p.is_active
                     /\ ledger'[k].points = p.rules[ledger'[k].rule].points
                     /\ ledger'[k].amount = p.rules[ledger'[k].rule].amount]_vars

\* C39: an apply_event call that returns without having added a ledger row leaves the
\* ledger and the engine's cooldown map as they were; and a call changes the cooldown
\* entry of a (user, source) only to the time of the call and only when it adds a
\* ledger row for an event of that user and source.
C39_SuppressedLeavesNoTrace ==
    [][\A eid \in EventIds :
          apply_event(1, eid) =>
              /\ (ledger' = ledger /\ last_call' = None) => cooldowns' = cooldowns
              /\ cooldowns'[2] = cooldowns[2]
              /\ \A key \in Users \X Sources :
                     cooldowns'[1][key] # cooldowns[1][key] =>
                         /\ cooldowns'[1][key] = Some(now)
                         /\ \E k \in (1..Len(ledger')) \ RowIds :
                                /\ ledger'[k].event_id = eid
                                /\ key = <<events[eid].user_id, events[eid].source>>]_vars

\* an event was evaluated and has no row, at a time later than the one cooldown entry
\* of the map, which is the time of the only row of the ledger
C39_SuppressedAfterPenalty ==
    \E e \in EventIds :
        /\ evals[e] >= 1
        /\ \A k \in RowIds : ledger[k].event_id # e
        /\ Len(ledger) = 1
        /\ cooldowns[1][<<1, "late">>] = Some(ledger[1].applied_at)
        /\ ledger[1].applied_at < now
        /\ events[e].occurred_at > ledger[1].applied_at
        /\ last_call = None

====
